---- MODULE Spec2Model ----
(***************************************************************************)
(* Strategy engine of predict-trading-system: the Redis stream subscriber, *)
(* Engine.handleEvent, the Delta-Neutral evaluator and the command         *)
(* executor, as one state machine.                                         *)
(*                                                                         *)
(* Untyped JSON values (interface{}) are tagged records: [str |-> s],      *)
(* [num |-> n], [list |-> q], [map |-> m], [absent |-> TRUE] (a missing    *)
(* key, the nil interface).  float64 prices are integers in units of       *)
(* 0.001, so 0.01 is 10 and 0.99 is 990.                                   *)
(***************************************************************************)
EXTENDS Integers, Sequences, FiniteSets, TLC

VARIABLES
    stream,      \* per stream name: the entries appended so far (entry id = index)
    cursor,      \* args.Streams[len(streams)+i]: last id per stream, Dollar for "$"
    readFrom,    \* the ids the XREAD in flight resolved its cursors to
    batch,       \* messages of the XREAD result not yet processed
    pc,          \* position of the subscription goroutine
    cancelled,   \* ctx.Done() is closed
    store,       \* rows of the strategies table
    strategies,  \* the snapshot Engine.Start loaded
    handlers,    \* Engine.handlers: registered type name -> evaluator
    dryRun,      \* Executor.dryRun
    event,       \* the event being handled
    si,          \* index of handleEvent's loop over strategies
    commands,    \* the command list ExecuteCommands is iterating
    ci,          \* index of ExecuteCommands' loop
    execErr,     \* what the last ExecuteCommands call returned
    evals,       \* evaluator calls made for the current event
    dispatches,  \* ExecuteCommands calls made for the current event
    attempts,    \* executeCommand calls made for the current event
    trace,       \* onEvent begin/end marks, in order
    startLen,    \* per stream: its length when the first XREAD resolved "$"
    published,   \* number of entries published so far
    mu,          \* Engine.mu: whether Lock is held, how many RLocks are held
    regpc,       \* per registering goroutine: position in RegisterStrategy, name
    lookup       \* handleEvent's registry lookup: position and what it read

vars == <<stream, cursor, readFrom, batch, pc, cancelled, store, strategies,
          handlers, mu, regpc, lookup, dryRun, event, si, commands, ci, execErr, evals,
          dispatches, attempts, trace, startLen, published>>

(***************************************************************************)
(* Bounds of the model.                                                    *)
(***************************************************************************)
MaxPublished == 2
MaxPairs == 2
MaxStrategies == 3
MaxCommands == 3
MaxRegistrars == 2

(***************************************************************************)
(* JSON values and Go's comma-ok type assertions.                          *)
(***************************************************************************)
Absent == [absent |-> TRUE]
Str(s) == [str |-> s]
Num(n) == [num |-> n]
List(q) == [list |-> q]
Map(m) == [map |-> m]

\* m[k] on a map[string]interface{}: nil when the key is missing
Get(m, k) == IF k \in DOMAIN m THEN m[k] ELSE Absent

\* s, _ := v.(string)
AsString(v) == IF "str" \in DOMAIN v THEN v.str ELSE ""

\* f, _ := v.(float64)
AsFloat(v) == IF "num" \in DOMAIN v THEN v.num ELSE 0

IsFloat(v) == "num" \in DOMAIN v
IsList(v) == "list" \in DOMAIN v
IsMap(v) == "map" \in DOMAIN v

NoErr == "nil"

(***************************************************************************)
(* DeltaNeutralHandler (strategies/delta_neutral.go).                      *)
(***************************************************************************)
\* a deny-list in place of the allow-list
IsFillClass_Mutant(type) == type # "cancel"
\* event.Type is "fill" or "trade_executed"
IsFillClass(type) == type = "fill" \/ type = "trade_executed"

MissingRequired(accountID, marketID, side) == accountID = "" \/ marketID = "" \/ side = ""

\* the loop "for _, pairRaw := range pairs" from index i on; "" when no entry matches
RECURSIVE FindPairedAccount(_, _, _, _)
FindPairedAccount(pairs, i, accountID, accountName) ==
    IF i > Len(pairs) THEN ""
    ELSE IF ~IsMap(pairs[i]) THEN FindPairedAccount(pairs, i + 1, accountID, accountName)
    ELSE LET primaryID == AsString(Get(pairs[i].map, "primary"))
             hedgeID == AsString(Get(pairs[i].map, "hedge"))
         IN  IF primaryID = accountID \/ primaryID = accountName
             THEN hedgeID
             ELSE FindPairedAccount(pairs, i + 1, accountID, accountName)

OppositeSide(side) == IF side = "no" THEN "yes" ELSE "no"

MinHedgePrice == 10
MaxHedgePrice == 990

\* the upper clamp left out
HedgePrice_Mutant(price, priceAdjustment) ==
    LET h == price + priceAdjustment
    IN  IF h < MinHedgePrice THEN MinHedgePrice ELSE h

\* price + priceAdjustment, raised to 0.01 and then lowered to 0.99
HedgePrice(price, priceAdjustment) ==
    LET h == price + priceAdjustment
        low == IF h < MinHedgePrice THEN MinHedgePrice ELSE h
    IN  IF low > MaxHedgePrice THEN MaxHedgePrice ELSE low

TargetPlatform(config) ==
    LET targetPlatform == AsString(Get(config, "target_platform"))
    IN  IF targetPlatform = "" THEN "predict" ELSE targetPlatform

PriceAdjustment(config) ==
    IF IsFloat(Get(config, "price_adjustment"))
    THEN Get(config, "price_adjustment").num
    ELSE 0

HedgeCommand(ev, strategy, pairedAccountID) ==
    [Type |-> "place_order",
     Platform |-> TargetPlatform(strategy.Config),
     AccountID |-> pairedAccountID,
     MarketID |-> AsString(Get(ev.Data, "market_id")),
     Side |-> OppositeSide(AsString(Get(ev.Data, "side"))),
     Price |-> HedgePrice(AsFloat(Get(ev.Data, "price")), PriceAdjustment(strategy.Config)),
     Shares |-> AsFloat(Get(ev.Data, "shares")),
     Metadata |-> [strategy |-> strategy.Name,
                   original_fill |-> ev.ID,
                   original_account |-> AsString(Get(ev.Data, "account_id")),
                   original_side |-> AsString(Get(ev.Data, "side"))]]

\* the evaluator's result: ([]Command, error)
DeltaNeutralHandler(ev, strategy) ==
    LET accountID == AsString(Get(ev.Data, "account_id"))
        accountName == AsString(Get(ev.Data, "account_name"))
        marketID == AsString(Get(ev.Data, "market_id"))
        side == AsString(Get(ev.Data, "side"))
        pairs == Get(strategy.Config, "pairs")
        pairedAccountID == FindPairedAccount(pairs.list, 1, accountID, accountName)
    IN  IF ~IsFillClass(ev.Type) THEN [commands |-> <<>>, err |-> NoErr]
        ELSE IF MissingRequired(accountID, marketID, side) THEN [commands |-> <<>>, err |-> NoErr]
        ELSE IF ~IsList(pairs) THEN [commands |-> <<>>, err |-> "invalid pairs config"]
        ELSE IF pairedAccountID = "" THEN [commands |-> <<>>, err |-> NoErr]
        ELSE [commands |-> <<HedgeCommand(ev, strategy, pairedAccountID)>>, err |-> NoErr]

(***************************************************************************)
(* Executor (executor/executor.go).  An outbound call ends with a 200, a   *)
(* 200 whose body does not decode, a non-200 response or a transport       *)
(* error.                                                                  *)
(***************************************************************************)
PredictURL == "http://predict-account:8000"
PolymarketURL == "http://polymarket-account:8000"

HttpOutcomes == {"ok", "badbody", "non200", "transport"}

\* every order sent to the Predict service
BaseURL_Mutant(platform) == PredictURL
\* baseURL := e.predictURL, replaced for platform "polymarket"
BaseURL(platform) == IF platform = "polymarket" THEN PolymarketURL ELSE PredictURL

\* a placeOrder that rejects the platforms it has no service for
placeOrder_RejectMutant(cmd, dry, outcome) ==
    IF cmd.Platform \notin {"predict", "polymarket"}
    THEN [request |-> <<>>, err |-> "unknown platform"]
    ELSE [request |-> <<[base |-> BaseURL(cmd.Platform),
                         path |-> "/trade",
                         account_id |-> cmd.AccountID,
                         market_id |-> cmd.MarketID,
                         side |-> cmd.Side,
                         price |-> cmd.Price,
                         shares |-> cmd.Shares,
                         confirm |-> ~dry]>>,
          err |-> CASE outcome = "ok" -> NoErr
                    [] outcome = "badbody" -> "decode"
                    [] outcome = "non200" -> "order failed"
                    [] OTHER -> "failed to send request"]

\* a placeOrder that sends nothing under dry-run
placeOrder_Mutant(cmd, dry, outcome) ==
    IF dry THEN [request |-> <<>>, err |-> NoErr]
    ELSE [request |-> <<[base |-> IF cmd.Platform = "polymarket"
                                  THEN PolymarketURL ELSE PredictURL,
                         path |-> "/trade",
                         account_id |-> cmd.AccountID,
                         market_id |-> cmd.MarketID,
                         side |-> cmd.Side,
                         price |-> cmd.Price,
                         shares |-> cmd.Shares,
                         confirm |-> TRUE]>>,
          err |-> CASE outcome = "ok" -> NoErr
                    [] outcome = "badbody" -> "decode"
                    [] outcome = "non200" -> "order failed"
                    [] OTHER -> "failed to send request"]

\* the request placeOrder builds and the error it returns
placeOrder(cmd, dry, outcome) ==
    [request |-> <<[base |-> BaseURL(cmd.Platform),
                    path |-> "/trade",
                    account_id |-> cmd.AccountID,
                    market_id |-> cmd.MarketID,
                    side |-> cmd.Side,
                    price |-> cmd.Price,
                    shares |-> cmd.Shares,
                    confirm |-> ~dry]>>,
     err |-> CASE outcome = "ok" -> NoErr
               [] outcome = "badbody" -> "decode"
               [] outcome = "non200" -> "order failed"
               [] OTHER -> "failed to send request"]

\* an unimplemented cancel reported as a command error
cancelOrder_Mutant(cmd) == [request |-> <<>>, err |-> "not implemented"]
\* cancelOrder: a warning is logged, nil is returned
cancelOrder(cmd) == [request |-> <<>>, err |-> NoErr]

executeCommand(cmd, dry, outcome) ==
    CASE cmd.Type = "place_order" -> placeOrder(cmd, dry, outcome)
      [] cmd.Type = "cancel_order" -> cancelOrder(cmd)
      [] OTHER -> [request |-> <<>>, err |-> "unknown command type"]

\* the outcomes an attempt of cmd can have: only place_order makes a call
OutcomesOf(cmd) == IF cmd.Type = "place_order" THEN HttpOutcomes ELSE {"none"}

\* the request is built with the engine's context (NewRequestWithContext):
\* once the context is done, httpClient.Do can also end with its error
CallOutcomes(cmd, ctxDone) ==
    OutcomesOf(cmd) \cup (IF ctxDone /\ cmd.Type = "place_order" THEN {"canceled"} ELSE {})

\* the loop left at the first failure
NextCommand_Mutant(i, n, err) == IF err = NoErr THEN i + 1 ELSE n + 1

\* the index ExecuteCommands' loop goes to after attempting command i of n with result err
NextCommand(i, n, err) == i + 1

\* what ExecuteCommands returns after the attempts in log
ExecuteCommandsResult(log) == NoErr

(***************************************************************************)
(* Engine (engine.go): registry, catalog load, one iteration of            *)
(* handleEvent's loop.                                                     *)
(***************************************************************************)
\* strategies.RegisterAll
RegisterAll ==
    [t \in {"delta_neutral", "delta_neutral_v1"} |-> "DeltaNeutralHandler"]

\* handler(event, strategy) for a registered handler
CallHandler(h, ev, strategy) == DeltaNeutralHandler(ev, strategy)

\* a loader that gives up the rest of the catalog at a row that does not decode
RECURSIVE GetActiveStrategies_Mutant(_)
GetActiveStrategies_Mutant(rows) ==
    IF rows = <<>> THEN <<>>
    ELSE LET row == Head(rows)
             rest == GetActiveStrategies_Mutant(Tail(rows))
         IN  IF row.enabled /\ ~row.decodable THEN <<>>
             ELSE IF row.enabled
             THEN <<[Name |-> row.name, Type |-> row.type,
                     Active |-> row.enabled, Config |-> row.config]>> \o rest
             ELSE rest

\* a loader without "WHERE enabled = true" that marks what it loads active
RECURSIVE GetActiveStrategies_AllMutant(_)
GetActiveStrategies_AllMutant(rows) ==
    IF rows = <<>> THEN <<>>
    ELSE LET row == Head(rows)
             rest == GetActiveStrategies_AllMutant(Tail(rows))
         IN  IF row.decodable
             THEN <<[Name |-> row.name, Type |-> row.type,
                     Active |-> TRUE, Config |-> row.config]>> \o rest
             ELSE rest

\* GetActiveStrategies: the enabled rows whose config decodes, in row order
RECURSIVE GetActiveStrategies(_)
GetActiveStrategies(rows) ==
    IF rows = <<>> THEN <<>>
    ELSE LET row == Head(rows)
             rest == GetActiveStrategies(Tail(rows))
         IN  IF row.enabled /\ row.decodable
             THEN <<[Name |-> row.name, Type |-> row.type,
                     Active |-> row.enabled, Config |-> row.config]>> \o rest
             ELSE rest

NoResult == [commands |-> <<>>, err |-> NoErr]

\* "return err" in place of "continue" when the evaluator fails
handleEventStep_Mutant(ev, strats, hs, i) ==
    LET strategy == strats[i]
        res == CallHandler(hs[strategy.Type], ev, strategy)
    IN  IF ~strategy.Active
        THEN [called |-> FALSE, res |-> NoResult, exec |-> <<>>, next |-> i + 1]
        ELSE IF strategy.Type \notin DOMAIN hs
        THEN [called |-> FALSE, res |-> NoResult, exec |-> <<>>, next |-> i + 1]
        ELSE IF res.err # NoErr
        THEN [called |-> TRUE, res |-> res, exec |-> <<>>, next |-> Len(strats) + 1]
        ELSE [called |-> TRUE, res |-> res, exec |-> res.commands, next |-> i + 1]

\* "return" in place of "continue" when no evaluator is registered for the type
handleEventStep_NoHandlerMutant(ev, strats, hs, i) ==
    LET strategy == strats[i]
        res == CallHandler(hs[strategy.Type], ev, strategy)
    IN  IF ~strategy.Active
        THEN [called |-> FALSE, res |-> NoResult, exec |-> <<>>, next |-> i + 1]
        ELSE IF strategy.Type \notin DOMAIN hs
        THEN [called |-> FALSE, res |-> NoResult, exec |-> <<>>, next |-> Len(strats) + 1]
        ELSE IF res.err # NoErr \/ Len(res.commands) = 0
        THEN [called |-> TRUE, res |-> res, exec |-> <<>>, next |-> i + 1]
        ELSE [called |-> TRUE, res |-> res, exec |-> res.commands, next |-> i + 1]

\* iteration i of "for _, strategy := range strategies": whether the evaluator
\* is called, its result, the commands handed to ExecuteCommands (none when
\* the strategy is skipped) and the next index
handleEventStep(ev, strats, hs, i) ==
    LET strategy == strats[i]
        res == CallHandler(hs[strategy.Type], ev, strategy)
    IN  IF ~strategy.Active
        THEN [called |-> FALSE, res |-> NoResult, exec |-> <<>>, next |-> i + 1]
        ELSE IF strategy.Type \notin DOMAIN hs
        THEN [called |-> FALSE, res |-> NoResult, exec |-> <<>>, next |-> i + 1]
        ELSE IF res.err # NoErr
        THEN [called |-> TRUE, res |-> res, exec |-> <<>>, next |-> i + 1]
        ELSE IF Len(res.commands) = 0
        THEN [called |-> TRUE, res |-> res, exec |-> <<>>, next |-> i + 1]
        ELSE [called |-> TRUE, res |-> res, exec |-> res.commands, next |-> i + 1]

(***************************************************************************)
(* Engine.mu (sync.RWMutex) and the goroutines that call RegisterStrategy. *)
(***************************************************************************)
Registrars == 1..MaxRegistrars

Unlocked == [writer |-> FALSE, readers |-> 0]
NotCalled == [pc |-> "idle", name |-> ""]
NoLookup == [pc |-> "idle", seen |-> <<>>, race |-> FALSE]

\* e.handlers[name] = handler
SetHandler(hs, name, handler) ==
    [t \in DOMAIN hs \cup {name} |-> IF t = name THEN handler ELSE hs[t]]

\* handler, exists := e.handlers[type], as the part of the map it reads
View(hs, type) == [t \in DOMAIN hs \cap {type} |-> hs[t]]

\* the goroutines inside RegisterStrategy's locked section
Writing == {r \in Registrars : regpc[r].pc \in {"locked", "written"}}

\* what a map read can give: the map's entry, or, when it runs together with
\* a map write (a data race), any entry or none
ReadOutcomes(hs, type) ==
    IF Writing = {}
    THEN {[seen |-> View(hs, type), race |-> FALSE]}
    ELSE {[seen |-> v, race |-> TRUE] :
            v \in {View(hs, type), <<>>, [t \in {type} |-> "DeltaNeutralHandler"]}}

(***************************************************************************)
(* Event bus (eventbus/redis.go).                                          *)
(***************************************************************************)
Streams == <<"fill_events", "trade_events", "account_events">>
StreamNames == {Streams[i] : i \in 1..Len(Streams)}

\* "$": the last id of the stream at the time of the XREAD call
Dollar == -1
XReadCount == 10

EmptyMap == <<>>

\* the wire form of an event: the field values of a stream entry
Entry(type, data) ==
    [type |-> Str(type), platform |-> Str("predict"), data |-> [json |-> data]]

\* time.Parse(time.RFC3339, s): the strings it accepts, with their instants
\* in Unix seconds; every other string is an error
RFC3339 ==
    [s \in {"2024-05-01T12:00:00Z", "2024-05-01T14:00:00+02:00"} |-> 1714564800]

\* time.Now().UTC() at the moment the entry is decoded
ReceiptTime == [now |-> TRUE]

\* a decoder that stamps every event with the time of its decoding
parseEvent_Mutant(id, values) ==
    [ID |-> id,
     Type |-> AsString(Get(values, "type")),
     Platform |-> AsString(Get(values, "platform")),
     Timestamp |-> ReceiptTime,
     Data |-> IF "json" \in DOMAIN Get(values, "data")
              THEN Get(values, "data").json
              ELSE EmptyMap]

\* parseEvent: [json |-> m] is a string holding the JSON object m, any other
\* string is one json.Unmarshal rejects for a map
parseEvent(id, values) ==
    [ID |-> id,
     Type |-> AsString(Get(values, "type")),
     Platform |-> AsString(Get(values, "platform")),
     Timestamp |-> LET v == Get(values, "timestamp")
                   IN  IF "str" \in DOMAIN v /\ v.str \in DOMAIN RFC3339
                       THEN [unix |-> RFC3339[v.str]]
                       ELSE ReceiptTime,
     Data |-> IF "json" \in DOMAIN Get(values, "data")
              THEN Get(values, "data").json
              ELSE EmptyMap]

\* "$" read as "0": the stream from its beginning
Resolve_Mutant(cur, len) == IF cur = Dollar THEN 0 ELSE cur
\* the id XREAD starts after, for a cursor and the stream's current length
Resolve(cur, len) == IF cur = Dollar THEN len ELSE cur

Min(a, b) == IF a < b THEN a ELSE b
Max(a, b) == IF a > b THEN a ELSE b

\* what XREAD returns of one stream: at most Count entries after id from
XReadMessages(st, s, from) ==
    [i \in 1..(Min(Len(st[s]), from + XReadCount) - from) |->
        [Stream |-> s, ID |-> from + i, Values |-> st[s][from + i]]]

RECURSIVE XReadResult(_, _, _)
XReadResult(st, from, k) ==
    IF k > Len(Streams) THEN <<>>
    ELSE LET s == Streams[k]
         IN  (IF Len(st[s]) > from[s] THEN <<XReadMessages(st, s, from[s])>> ELSE <<>>)
             \o XReadResult(st, from, k + 1)

Reverse(q) == [i \in 1..Len(q) |-> q[Len(q) + 1 - i]]

\* the messages of each stream handled last to first
RECURSIVE ProcessOrder_Mutant(_)
ProcessOrder_Mutant(result) ==
    IF result = <<>> THEN <<>>
    ELSE Reverse(Head(result)) \o ProcessOrder_Mutant(Tail(result))

\* "for _, stream := range result { for _, message := range stream.Messages":
\* the order in which the messages of a result are handled
RECURSIVE ProcessOrder(_)
ProcessOrder(result) ==
    IF result = <<>> THEN <<>>
    ELSE Head(result) \o ProcessOrder(Tail(result))

\* the cursor left one entry behind the message
AdvanceCursor_Mutant(cur, msg) == [cur EXCEPT ![msg.Stream] = msg.ID - 1]
\* "args.Streams[len(streams)+i] = message.ID" for the stream of the message
AdvanceCursor(cur, msg) == [cur EXCEPT ![msg.Stream] = msg.ID]

(***************************************************************************)
(* Marks of the trace, and the state before any event.                     *)
(***************************************************************************)
NoEvent == [ID |-> 0, Type |-> "", Platform |-> "", Timestamp |-> ReceiptTime,
            Data |-> EmptyMap]

\* number of commands handed to ExecuteCommands in the dispatches of log
RECURSIVE CommandCount(_)
CommandCount(log) ==
    IF log = <<>> THEN 0 ELSE Len(Head(log).commands) + CommandCount(Tail(log))

BeginMark(msg) ==
    [kind |-> "begin", s |-> msg.Stream, id |-> msg.ID, evals |-> 0, pending |-> 0,
     results |-> <<>>]

EndMark(msg, ev, ds, as) ==
    [kind |-> "end", s |-> msg.Stream, id |-> msg.ID, evals |-> Len(ev),
     pending |-> CommandCount(ds) - Len(as), results |-> ev]

(***************************************************************************)
(* The environment: publishers and the shutdown signal.                    *)
(***************************************************************************)
FillData ==
    [account_id |-> Str("A"), market_id |-> Str("M1"), side |-> Str("yes"),
     price |-> Num(600), shares |-> Num(10)]

\* an entry whose data field is not JSON and whose type is missing
GarbledEntry == [data |-> Str("{"), platform |-> Str("predict")]

PipelineEntries ==
    {Entry("fill", FillData), Entry("account_created", [account_id |-> Str("A")]),
     GarbledEntry}

\* XADD by an execution service
Publish(s, values) ==
    /\ published < MaxPublished
    /\ stream' = [stream EXCEPT ![s] = Append(@, values)]
    /\ published' = published + 1
    /\ UNCHANGED <<cursor, readFrom, batch, pc, cancelled, store, strategies,
                   handlers, mu, regpc, lookup, dryRun, event, si, commands, ci, execErr, evals,
                   dispatches, attempts, trace, startLen>>

\* main: cancel() after the interrupt
Cancel ==
    /\ ~cancelled
    /\ cancelled' = TRUE
    /\ UNCHANGED <<stream, cursor, readFrom, batch, pc, store, strategies,
                   handlers, mu, regpc, lookup, dryRun, event, si, commands, ci, execErr, evals,
                   dispatches, attempts, trace, startLen, published>>

(***************************************************************************)
(* Engine.Start and RedisEventBus.Subscribe.                               *)
(***************************************************************************)
\* Start: the catalog is loaded, Subscribe sets every cursor to "$"
Start ==
    /\ pc = "created"
    /\ strategies' = GetActiveStrategies(store)
    /\ cursor' = [s \in StreamNames |-> Dollar]
    /\ pc' = "loop"
    /\ UNCHANGED <<stream, readFrom, batch, cancelled, store, handlers, mu, regpc, lookup, dryRun,
                   event, si, commands, ci, execErr, evals, dispatches,
                   attempts, trace, startLen, published>>

\* a Start that logs the failed load and subscribes with an empty catalog
StartFails_Mutant ==
    /\ pc = "created"
    /\ strategies' = <<>>
    /\ cursor' = [s \in StreamNames |-> Dollar]
    /\ pc' = "loop"
    /\ UNCHANGED <<stream, readFrom, batch, cancelled, store, handlers, mu, regpc, lookup, dryRun,
                   event, si, commands, ci, execErr, evals, dispatches,
                   attempts, trace, startLen, published>>

\* Start: the store query fails
StartFails ==
    /\ pc = "created"
    /\ pc' = "failed"
    /\ UNCHANGED <<stream, cursor, readFrom, batch, cancelled, store, strategies,
                   handlers, mu, regpc, lookup, dryRun, event, si, commands, ci, execErr, evals,
                   dispatches, attempts, trace, startLen, published>>

\* a loop that does not look at ctx.Done(): the next XREAD is sent
LoopCancelled_Mutant ==
    /\ pc = "loop"
    /\ cancelled
    /\ readFrom' = [s \in StreamNames |-> Resolve(cursor[s], Len(stream[s]))]
    /\ pc' = "xread"
    /\ UNCHANGED <<stream, cursor, batch, cancelled, store, strategies,
                   handlers, mu, regpc, lookup, dryRun, event, si, commands, ci, execErr, evals,
                   dispatches, attempts, trace, startLen, published>>

\* select: case <-ctx.Done()
LoopCancelled ==
    /\ pc = "loop"
    /\ cancelled
    /\ pc' = "stopped"
    /\ UNCHANGED <<stream, cursor, readFrom, batch, cancelled, store, strategies,
                   handlers, mu, regpc, lookup, dryRun, event, si, commands, ci, execErr, evals,
                   dispatches, attempts, trace, startLen, published>>

\* select: default, the XREAD is sent
XReadIssue ==
    /\ pc = "loop"
    /\ ~cancelled
    /\ readFrom' = [s \in StreamNames |-> Resolve(cursor[s], Len(stream[s]))]
    /\ startLen' = [s \in StreamNames |->
                      IF startLen[s] = Dollar THEN Len(stream[s]) ELSE startLen[s]]
    /\ pc' = "xread"
    /\ UNCHANGED <<stream, cursor, batch, cancelled, store, strategies,
                   handlers, mu, regpc, lookup, dryRun, event, si, commands, ci, execErr, evals,
                   dispatches, attempts, trace, published>>

Available == \E s \in StreamNames : Len(stream[s]) > readFrom[s]

\* XREAD answers with the entries after the resolved ids
XReadReturn ==
    /\ pc = "xread"
    /\ Available
    /\ batch' = ProcessOrder(XReadResult(stream, readFrom, 1))
    /\ pc' = "batch"
    /\ UNCHANGED <<stream, cursor, readFrom, cancelled, store, strategies,
                   handlers, mu, regpc, lookup, dryRun, event, si, commands, ci, execErr, evals,
                   dispatches, attempts, trace, startLen, published>>

\* an idle read makes the engine start over: the catalog is loaded again
XReadTimeout_Mutant ==
    /\ pc = "xread"
    /\ ~Available
    /\ pc' = "created"
    /\ UNCHANGED <<stream, cursor, readFrom, batch, cancelled, store, strategies,
                   handlers, mu, regpc, lookup, dryRun, event, si, commands, ci, execErr, evals,
                   dispatches, attempts, trace, startLen, published>>

\* XREAD ends with redis.Nil: nothing arrived within the block time
XReadTimeout ==
    /\ pc = "xread"
    /\ ~Available
    /\ pc' = "loop"
    /\ UNCHANGED <<stream, cursor, readFrom, batch, cancelled, store, strategies,
                   handlers, mu, regpc, lookup, dryRun, event, si, commands, ci, execErr, evals,
                   dispatches, attempts, trace, startLen, published>>

\* "return err" on every failed read
XReadError_Mutant ==
    /\ pc = "xread"
    /\ pc' = "stopped"
    /\ UNCHANGED <<stream, cursor, readFrom, batch, cancelled, store, strategies,
                   handlers, mu, regpc, lookup, dryRun, event, si, commands, ci, execErr, evals,
                   dispatches, attempts, trace, startLen, published>>

\* XREAD fails: return when the context is done, else back off
XReadError ==
    /\ pc = "xread"
    /\ pc' = IF cancelled THEN "stopped" ELSE "backoff"
    /\ UNCHANGED <<stream, cursor, readFrom, batch, cancelled, store, strategies,
                   handlers, mu, regpc, lookup, dryRun, event, si, commands, ci, execErr, evals,
                   dispatches, attempts, trace, startLen, published>>

\* the subscription starts afresh after a failed read: every cursor back to "$"
BackoffDone_Mutant ==
    /\ pc = "backoff"
    /\ pc' = "loop"
    /\ cursor' = [s \in StreamNames |-> Dollar]
    /\ UNCHANGED <<stream, readFrom, batch, cancelled, store, strategies,
                   handlers, mu, regpc, lookup, dryRun, event, si, commands, ci, execErr, evals,
                   dispatches, attempts, trace, startLen, published>>

\* time.Sleep(time.Second) is over
BackoffDone ==
    /\ pc = "backoff"
    /\ pc' = "loop"
    /\ UNCHANGED <<stream, cursor, readFrom, batch, cancelled, store, strategies,
                   handlers, mu, regpc, lookup, dryRun, event, si, commands, ci, execErr, evals,
                   dispatches, attempts, trace, startLen, published>>

\* the catalog read again from the store for every message
DeliverMessage_Mutant ==
    /\ pc = "batch"
    /\ batch # <<>>
    /\ strategies' = GetActiveStrategies(store)
    /\ event' = parseEvent(Head(batch).ID, Head(batch).Values)
    /\ si' = 1
    /\ evals' = <<>>
    /\ dispatches' = <<>>
    /\ attempts' = <<>>
    /\ trace' = Append(trace, BeginMark(Head(batch)))
    /\ pc' = "handle"
    /\ UNCHANGED <<stream, cursor, readFrom, batch, cancelled, store,
                   handlers, mu, regpc, lookup, dryRun, commands, ci, execErr, startLen, published>>

\* the next message is parsed and the handler is called
DeliverMessage ==
    /\ pc = "batch"
    /\ batch # <<>>
    /\ event' = parseEvent(Head(batch).ID, Head(batch).Values)
    /\ si' = 1
    /\ evals' = <<>>
    /\ dispatches' = <<>>
    /\ attempts' = <<>>
    /\ trace' = Append(trace, BeginMark(Head(batch)))
    /\ pc' = "handle"
    /\ UNCHANGED <<stream, cursor, readFrom, batch, cancelled, store, strategies,
                   handlers, mu, regpc, lookup, dryRun, commands, ci, execErr, startLen, published>>

\* every message of the result has been handled
BatchDone ==
    /\ pc = "batch"
    /\ batch = <<>>
    /\ pc' = "loop"
    /\ UNCHANGED <<stream, cursor, readFrom, batch, cancelled, store, strategies,
                   handlers, mu, regpc, lookup, dryRun, event, si, commands, ci, execErr, evals,
                   dispatches, attempts, trace, startLen, published>>

(***************************************************************************)
(* Engine.handleEvent and Executor.ExecuteCommands.                        *)
(***************************************************************************)
\* an evaluator that remembers the fills it has hedged: an entry whose
\* values were handled before yields nothing
HandleStrategy_Mutant ==
    /\ pc = "handle"
    /\ si <= Len(strategies)
    /\ LET seen == \E m \in 1..Len(trace) :
                       /\ trace[m].kind = "end"
                       /\ stream[trace[m].s][trace[m].id] = Head(batch).Values
           real == handleEventStep(event, strategies, handlers, si)
           step == IF seen /\ real.called
                   THEN [real EXCEPT !.res = NoResult, !.exec = <<>>]
                   ELSE real
       IN  /\ evals' = IF step.called
                       THEN Append(evals, [si |-> si, res |-> step.res])
                       ELSE evals
           /\ IF step.exec # <<>>
              THEN /\ dispatches' = Append(dispatches, [si |-> si, commands |-> step.exec])
                   /\ commands' = step.exec
                   /\ ci' = 1
                   /\ pc' = "exec"
                   /\ si' = si
              ELSE /\ si' = step.next
                   /\ UNCHANGED <<dispatches, commands, ci, pc>>
    /\ UNCHANGED <<stream, cursor, readFrom, batch, cancelled, store, strategies,
                   handlers, mu, regpc, lookup, dryRun, event, execErr, attempts, trace, startLen,
                   published>>

\* one iteration of handleEvent's loop, up to the call of ExecuteCommands
HandleStrategy ==
    /\ pc = "handle"
    /\ si <= Len(strategies)
    /\ LET step == handleEventStep(event, strategies, handlers, si)
       IN  /\ evals' = IF step.called
                       THEN Append(evals, [si |-> si, res |-> step.res])
                       ELSE evals
           /\ IF step.exec # <<>>
              THEN /\ dispatches' = Append(dispatches, [si |-> si, commands |-> step.exec])
                   /\ commands' = step.exec
                   /\ ci' = 1
                   /\ pc' = "exec"
                   /\ si' = si
              ELSE /\ si' = step.next
                   /\ UNCHANGED <<dispatches, commands, ci, pc>>
    /\ UNCHANGED <<stream, cursor, readFrom, batch, cancelled, store, strategies,
                   handlers, mu, regpc, lookup, dryRun, event, execErr, attempts, trace, startLen,
                   published>>

\* placeOrder up to httpClient.Do: the request is on its way
SendRequest ==
    /\ pc = "exec"
    /\ ci <= Len(commands)
    /\ commands[ci].Type = "place_order"
    /\ attempts' = Append(attempts,
                       [si |-> si, ci |-> ci, cmd |-> commands[ci],
                        request |-> placeOrder(commands[ci], dryRun, "ok").request,
                        err |-> NoErr, outcome |-> "inflight", live |-> ~cancelled])
    /\ pc' = "http"
    /\ UNCHANGED <<stream, cursor, readFrom, batch, cancelled, store, strategies,
                   handlers, mu, regpc, lookup, dryRun, event, si, commands, ci, execErr, evals,
                   dispatches, trace, startLen, published>>

\* one iteration of ExecuteCommands' loop comes to its end: executeCommand
\* returns, for a place_order with the outcome of the call in flight
ExecuteCommand ==
    /\ ci <= Len(commands)
    /\ \/ pc = "http"
       \/ pc = "exec" /\ commands[ci].Type # "place_order"
    /\ \E outcome \in CallOutcomes(commands[ci], cancelled) :
         LET r == executeCommand(commands[ci], dryRun, outcome)
             done == [si |-> si, ci |-> ci, cmd |-> commands[ci],
                      request |-> r.request, err |-> r.err, outcome |-> outcome,
                      live |-> IF pc = "http" THEN attempts[Len(attempts)].live
                               ELSE ~cancelled]
         IN  /\ attempts' = IF pc = "http"
                            THEN [attempts EXCEPT ![Len(attempts)] = done]
                            ELSE Append(attempts, done)
             /\ ci' = NextCommand(ci, Len(commands), r.err)
    /\ pc' = "exec"
    /\ UNCHANGED <<stream, cursor, readFrom, batch, cancelled, store, strategies,
                   handlers, mu, regpc, lookup, dryRun, event, si, commands, execErr, evals,
                   dispatches, trace, startLen, published>>

\* a dispatcher that gives control back before the list is worked off
ExecuteReturn_Mutant ==
    /\ pc = "exec"
    /\ execErr' = ExecuteCommandsResult(attempts)
    /\ si' = si + 1
    /\ pc' = "handle"
    /\ UNCHANGED <<stream, cursor, readFrom, batch, cancelled, store, strategies,
                   handlers, mu, regpc, lookup, dryRun, event, commands, ci, evals,
                   dispatches, attempts, trace, startLen, published>>

\* ExecuteCommands returns to handleEvent, which goes to the next strategy
ExecuteReturn ==
    /\ pc = "exec"
    /\ ci > Len(commands)
    /\ execErr' = ExecuteCommandsResult(attempts)
    /\ si' = si + 1
    /\ pc' = "handle"
    /\ UNCHANGED <<stream, cursor, readFrom, batch, cancelled, store, strategies,
                   handlers, mu, regpc, lookup, dryRun, event, commands, ci, evals, dispatches,
                   attempts, trace, startLen, published>>

\* loops over the reply that are left when the context is done
HandleReturn_Mutant ==
    /\ pc = "handle"
    /\ si > Len(strategies)
    /\ trace' = Append(trace, EndMark(Head(batch), evals, dispatches, attempts))
    /\ cursor' = AdvanceCursor(cursor, Head(batch))
    /\ batch' = IF cancelled THEN <<>> ELSE Tail(batch)
    /\ pc' = "batch"
    /\ UNCHANGED <<stream, readFrom, cancelled, store, strategies, handlers, mu,
                   regpc, lookup, dryRun, event, si, commands, ci, execErr, evals,
                   dispatches, attempts, startLen, published>>

\* handleEvent returns nil; Subscribe updates the cursor of the message's stream
HandleReturn ==
    /\ pc = "handle"
    /\ si > Len(strategies)
    /\ trace' = Append(trace, EndMark(Head(batch), evals, dispatches, attempts))
    /\ cursor' = AdvanceCursor(cursor, Head(batch))
    /\ batch' = Tail(batch)
    /\ pc' = "batch"
    /\ UNCHANGED <<stream, readFrom, cancelled, store, strategies, handlers, mu, regpc, lookup,
                   dryRun, event, si, commands, ci, execErr, evals, dispatches,
                   attempts, startLen, published>>

(***************************************************************************)
(* Spec: the engine from construction on, with publishers and shutdown.    *)
(***************************************************************************)
Row(name, type, config) ==
    [name |-> name, type |-> type, enabled |-> TRUE, decodable |-> TRUE, config |-> config]

PairAB == Map([primary |-> Str("A"), hedge |-> Str("B")])

GoodRow == Row("dn", "delta_neutral", [pairs |-> List(<<PairAB>>)])
BadRow == Row("broken", "delta_neutral_v1", [target_platform |-> Str("predict")])
UnregisteredRow == Row("arb", "arbitrage", [pairs |-> List(<<PairAB>>)])
DisabledRow == [GoodRow EXCEPT !.name = "off", !.enabled = FALSE]

PipelineStores == {<<GoodRow>>, <<BadRow, DisabledRow, GoodRow>>}

Init ==
    /\ stream = [s \in StreamNames |-> <<>>]
    /\ cursor = [s \in StreamNames |-> Dollar]
    /\ readFrom = [s \in StreamNames |-> 0]
    /\ batch = <<>>
    /\ pc = "created"
    /\ cancelled = FALSE
    /\ store \in PipelineStores
    /\ strategies = <<>>
    /\ handlers = RegisterAll
    /\ mu = Unlocked
    /\ regpc = [r \in Registrars |-> NotCalled]
    /\ lookup = NoLookup
    /\ dryRun = FALSE
    /\ event = NoEvent
    /\ si = 1
    /\ commands = <<>>
    /\ ci = 1
    /\ execErr = NoErr
    /\ evals = <<>>
    /\ dispatches = <<>>
    /\ attempts = <<>>
    /\ trace = <<>>
    /\ startLen = [s \in StreamNames |-> Dollar]
    /\ published = 0

Next ==
    \/ \E s \in StreamNames, values \in PipelineEntries : Publish(s, values)
    \/ Cancel
    \/ Start
    \/ StartFails
    \/ LoopCancelled
    \/ XReadIssue
    \/ XReadReturn
    \/ XReadTimeout
    \/ XReadError
    \/ BackoffDone
    \/ DeliverMessage
    \/ BatchDone
    \/ HandleStrategy
    \/ SendRequest
    \/ ExecuteCommand
    \/ ExecuteReturn
    \/ HandleReturn

Spec == Init /\ [][Next]_vars

\* a step of the goroutine running Engine.Start
SubscriberStep ==
    \/ Start
    \/ StartFails
    \/ LoopCancelled
    \/ XReadIssue
    \/ XReadReturn
    \/ XReadTimeout
    \/ XReadError
    \/ BackoffDone
    \/ DeliverMessage
    \/ BatchDone
    \/ HandleStrategy
    \/ SendRequest
    \/ ExecuteCommand
    \/ ExecuteReturn
    \/ HandleReturn

\* the engine with publishers of fills only
NextLive ==
    \/ \E s \in StreamNames : Publish(s, Entry("fill", FillData))
    \/ Cancel
    \/ SubscriberStep

\* SpecLive: the goroutine keeps running.  Every wait in it is bounded: the
\* XREAD by its block time and the client's read timeout, the backoff by its
\* one second, an outbound call by the HTTP client's timeout.
SpecLive == Init /\ [][NextLive]_vars /\ WF_vars(SubscriberStep)

(***************************************************************************)
(* SpecHandleEvent: handleEvent applied to one delivered entry, for        *)
(* entries and catalogs drawn from bounded sets.  The initial states are   *)
(* those in which Subscribe has just called the handler on the first       *)
(* entry of fill_events.                                                   *)
(***************************************************************************)
\* a map holding the keys of full whose value is present
Present(full) == [k \in {j \in DOMAIN full : full[j] # Absent} |-> full[k]]

EventData(a, n, m, s, p, q) ==
    Present([account_id |-> a, account_name |-> n, market_id |-> m,
             side |-> s, price |-> p, shares |-> q])

StrategyConfig(pairs, target, adj) ==
    Present([pairs |-> pairs, target_platform |-> target, price_adjustment |-> adj])

EventTypes == {"fill", "trade_executed", "account_created", "cancel"}
AccountIds == {Absent, Num(7), Str("A")}
MarketIds == {Absent, Num(7), Str("M1")}
Sides == {Absent, Num(1), Str("yes"), Str("no"), Str("maybe")}
Prices == {Absent, Str("0.6"), Num(600)}
ShareCounts == {Absent, Str("10"), Num(0), Num(10)}

PairAC == Map([primary |-> Str("A"), hedge |-> Str("C")])
PairNX == Map([primary |-> Str("N"), hedge |-> Str("X")])
PairZY == Map([primary |-> Str("Z"), hedge |-> Str("Y")])
PairNoPrimary == Map([hedge |-> Str("H")])
PairNoHedge == Map([primary |-> Str("A")])
PairEntries == {PairAB, PairAC, PairNX, PairZY, PairNoPrimary, PairNoHedge, Str("junk")}

SeqsUpTo(S, n) == UNION {[1..k -> S] : k \in 0..n}

PairTables == {List(q) : q \in SeqsUpTo(PairEntries, MaxPairs)}

\* every shape of the payload fields, against three pairing tables
FieldInputs ==
    {[entry |-> Entry(t, EventData(a, Absent, m, s, p, q)),
      rows |-> <<Row("dn", "delta_neutral", StrategyConfig(pairs, Absent, Absent))>>] :
        t \in EventTypes, a \in AccountIds, m \in MarketIds, s \in Sides,
        p \in Prices, q \in ShareCounts,
        pairs \in {Absent, List(<<PairAB>>), List(<<PairNoPrimary>>)}}

\* well-formed payloads, against every pairing table and configuration
PairInputs ==
    {[entry |-> Entry(t, EventData(Str("A"), n, Str("M1"), s, p, Num(10))),
      rows |-> <<Row("dn", "delta_neutral", StrategyConfig(pairs, target, adj))>>] :
        t \in {"fill", "account_created"}, n \in {Absent, Str("N")},
        s \in {Str("yes"), Str("no")}, p \in {Num(5), Num(600)},
        pairs \in PairTables \cup {Absent, Str("none")},
        target \in {Absent, Str("polymarket")},
        adj \in {Absent, Num(450), Num(0 - 600)}}

GoodRowC ==
    Row("dn2", "delta_neutral_v1",
        [pairs |-> List(<<PairAC>>), target_platform |-> Str("polymarket")])

\* catalogs of several strategies
CatalogInputs ==
    {[entry |-> e, rows |-> rows] :
        e \in PipelineEntries,
        rows \in SeqsUpTo({GoodRow, GoodRowC, BadRow, UnregisteredRow}, MaxStrategies)}

\* catalogs with a row that is not enabled
InactiveInputs ==
    {[entry |-> e, rows |-> rows] :
        e \in PipelineEntries,
        rows \in {<<DisabledRow>>, <<DisabledRow, GoodRow>>, <<GoodRowC, DisabledRow>>,
                  <<DisabledRow, BadRow, UnregisteredRow, GoodRow>>}}

\* pairing tables whose entries have every shape of the hedge
PairEmptyHedge == Map([primary |-> Str("A"), hedge |-> Str("")])
PairNumHedge == Map([primary |-> Str("A"), hedge |-> Num(7)])

HedgeInputs ==
    {[entry |-> Entry("fill", FillData),
      rows |-> <<Row("dn", "delta_neutral", [pairs |-> List(q)])>>] :
        q \in SeqsUpTo({PairAB, PairNoHedge, PairEmptyHedge, PairNumHedge,
                        PairNoPrimary, Num(1)}, MaxPairs)}

HandleInputs ==
    FieldInputs \cup PairInputs \cup CatalogInputs \cup InactiveInputs \cup HedgeInputs

FirstMessage(values) == [Stream |-> Streams[1], ID |-> 1, Values |-> values]

InitHandleEvent ==
    \E in \in HandleInputs :
        /\ stream = [s \in StreamNames |-> IF s = Streams[1] THEN <<in.entry>> ELSE <<>>]
        /\ cursor = [s \in StreamNames |-> Dollar]
        /\ readFrom = [s \in StreamNames |-> 0]
        /\ batch = <<FirstMessage(in.entry)>>
        /\ pc = "handle"
        /\ cancelled = FALSE
        /\ store = in.rows
        /\ strategies = GetActiveStrategies(in.rows)
        /\ handlers = RegisterAll
        /\ mu = Unlocked
        /\ regpc = [r \in Registrars |-> NotCalled]
        /\ lookup = NoLookup
        /\ dryRun = FALSE
        /\ event = parseEvent(1, in.entry)
        /\ si = 1
        /\ commands = <<>>
        /\ ci = 1
        /\ execErr = NoErr
        /\ evals = <<>>
        /\ dispatches = <<>>
        /\ attempts = <<>>
        /\ trace = <<BeginMark(FirstMessage(in.entry))>>
        /\ startLen = [s \in StreamNames |-> 0]
        /\ published = 1

NextHandleEvent ==
    \/ HandleStrategy
    \/ SendRequest
    \/ ExecuteCommand
    \/ ExecuteReturn
    \/ HandleReturn

SpecHandleEvent == InitHandleEvent /\ [][NextHandleEvent]_vars

(***************************************************************************)
(* SpecExecute: ExecuteCommands applied to command lists drawn from a      *)
(* bounded set, under either dry-run setting.                              *)
(***************************************************************************)
CommandOf(type, platform, account) ==
    [Type |-> type, Platform |-> platform, AccountID |-> account, MarketID |-> "M1",
     Side |-> "no", Price |-> 600, Shares |-> 10,
     Metadata |-> [strategy |-> "dn", original_fill |-> 1,
                   original_account |-> "A", original_side |-> "yes"]]

CommandKinds ==
    {CommandOf("place_order", "predict", "B"),
     CommandOf("place_order", "polymarket", "C"),
     CommandOf("place_order", "", "B"),
     CommandOf("place_order", "kalshi", "B"),
     CommandOf("cancel_order", "predict", "B"),
     CommandOf("amend_order", "predict", "B")}

CommandLists == SeqsUpTo(CommandKinds, MaxCommands)

InitExecute ==
    \E cmds \in CommandLists, dry \in BOOLEAN :
        /\ stream = [s \in StreamNames |-> IF s = Streams[1] THEN <<Entry("fill", FillData)>> ELSE <<>>]
        /\ cursor = [s \in StreamNames |-> Dollar]
        /\ readFrom = [s \in StreamNames |-> 0]
        /\ batch = <<FirstMessage(Entry("fill", FillData))>>
        /\ pc = "exec"
        /\ cancelled = FALSE
        /\ store = <<GoodRow>>
        /\ strategies = GetActiveStrategies(<<GoodRow>>)
        /\ handlers = RegisterAll
        /\ mu = Unlocked
        /\ regpc = [r \in Registrars |-> NotCalled]
        /\ lookup = NoLookup
        /\ dryRun = dry
        /\ event = parseEvent(1, Entry("fill", FillData))
        /\ si = 1
        /\ commands = cmds
        /\ ci = 1
        /\ execErr = "pending"
        /\ evals = <<[si |-> 1, res |-> [commands |-> cmds, err |-> NoErr]]>>
        /\ dispatches = <<[si |-> 1, commands |-> cmds]>>
        /\ attempts = <<>>
        /\ trace = <<BeginMark(FirstMessage(Entry("fill", FillData)))>>
        /\ startLen = [s \in StreamNames |-> 0]
        /\ published = 1

NextExecute ==
    \/ SendRequest
    \/ ExecuteCommand
    \/ ExecuteReturn

SpecExecute == InitExecute /\ [][NextExecute]_vars

(***************************************************************************)
(* SpecCatalog: the engine with publishers of fills and an operator who    *)
(* rewrites the strategies table while the engine runs.                    *)
(***************************************************************************)
\* the strategies table is replaced by rows
UpdateStore(rows) ==
    /\ rows # store
    /\ store' = rows
    /\ UNCHANGED <<stream, cursor, readFrom, batch, pc, cancelled, strategies,
                   handlers, mu, regpc, lookup, dryRun, event, si, commands, ci, execErr, evals,
                   dispatches, attempts, trace, startLen, published>>

NextCatalog ==
    \/ \E rows \in PipelineStores : UpdateStore(rows)
    \/ NextLive

SpecCatalog == Init /\ [][NextCatalog]_vars

(***************************************************************************)
(* SpecLoad: Engine.Start's catalog load, for strategy tables drawn from a *)
(* bounded set of rows.                                                    *)
(***************************************************************************)
\* an enabled row whose config column is not valid JSON
UndecodableRow == [GoodRow EXCEPT !.name = "garbled", !.decodable = FALSE]

LoadStores ==
    SeqsUpTo({GoodRow, BadRow, UnregisteredRow, DisabledRow, UndecodableRow}, MaxStrategies)

InitLoad ==
    /\ stream = [s \in StreamNames |-> <<>>]
    /\ cursor = [s \in StreamNames |-> Dollar]
    /\ readFrom = [s \in StreamNames |-> 0]
    /\ batch = <<>>
    /\ pc = "created"
    /\ cancelled = FALSE
    /\ store \in LoadStores
    /\ strategies = <<>>
    /\ handlers = RegisterAll
    /\ mu = Unlocked
    /\ regpc = [r \in Registrars |-> NotCalled]
    /\ lookup = NoLookup
    /\ dryRun = FALSE
    /\ event = NoEvent
    /\ si = 1
    /\ commands = <<>>
    /\ ci = 1
    /\ execErr = NoErr
    /\ evals = <<>>
    /\ dispatches = <<>>
    /\ attempts = <<>>
    /\ trace = <<>>
    /\ startLen = [s \in StreamNames |-> Dollar]
    /\ published = 0

NextLoad ==
    \/ Start
    \/ StartFails

SpecLoad == InitLoad /\ [][NextLoad]_vars

(***************************************************************************)
(* SpecRegistry: handleEvent running for one delivered fill while other    *)
(* goroutines call RegisterStrategy; the lock operations of both are       *)
(* separate steps.                                                         *)
(***************************************************************************)
LateNames == {"arbitrage", "delta_neutral"}

RegistryCatalogs == {<<UnregisteredRow, GoodRow>>, <<GoodRow, UnregisteredRow>>}

\* RegisterStrategy(name, handler) is called: e.mu.Lock()
RegisterLock(r, name) ==
    /\ regpc[r].pc = "idle"
    /\ ~mu.writer
    /\ mu.readers = 0
    /\ mu' = [mu EXCEPT !.writer = TRUE]
    /\ regpc' = [regpc EXCEPT ![r] = [pc |-> "locked", name |-> name]]
    /\ UNCHANGED <<stream, cursor, readFrom, batch, pc, cancelled, store, strategies,
                   handlers, dryRun, event, si, commands, ci, execErr, evals,
                   dispatches, attempts, trace, startLen, published, lookup>>

\* e.handlers[name] = handler
RegisterWrite(r) ==
    /\ regpc[r].pc = "locked"
    /\ handlers' = SetHandler(handlers, regpc[r].name, "DeltaNeutralHandler")
    /\ regpc' = [regpc EXCEPT ![r].pc = "written"]
    /\ UNCHANGED <<stream, cursor, readFrom, batch, pc, cancelled, store, strategies,
                    dryRun, event, si, commands, ci, execErr, evals,
                   dispatches, attempts, trace, startLen, published, mu, lookup>>

\* the deferred e.mu.Unlock()
RegisterUnlock(r) ==
    /\ regpc[r].pc = "written"
    /\ mu' = [mu EXCEPT !.writer = FALSE]
    /\ regpc' = [regpc EXCEPT ![r].pc = "done"]
    /\ UNCHANGED <<stream, cursor, readFrom, batch, pc, cancelled, store, strategies,
                   handlers, dryRun, event, si, commands, ci, execErr, evals,
                   dispatches, attempts, trace, startLen, published, lookup>>

\* an RLock that does not wait for the holder of Lock
LookupRLock_Mutant ==
    /\ pc = "handle"
    /\ si <= Len(strategies)
    /\ strategies[si].Active
    /\ lookup.pc = "idle"
    /\ mu' = [mu EXCEPT !.readers = @ + 1]
    /\ lookup' = [lookup EXCEPT !.pc = "rlocked"]
    /\ UNCHANGED <<stream, cursor, readFrom, batch, pc, cancelled, store, strategies,
                   handlers, dryRun, event, si, commands, ci, execErr, evals,
                   dispatches, attempts, trace, startLen, published, regpc>>

\* handleEvent, for an active strategy: e.mu.RLock()
LookupRLock ==
    /\ pc = "handle"
    /\ si <= Len(strategies)
    /\ strategies[si].Active
    /\ lookup.pc = "idle"
    /\ ~mu.writer
    /\ mu' = [mu EXCEPT !.readers = @ + 1]
    /\ lookup' = [lookup EXCEPT !.pc = "rlocked"]
    /\ UNCHANGED <<stream, cursor, readFrom, batch, pc, cancelled, store, strategies,
                   handlers, dryRun, event, si, commands, ci, execErr, evals,
                   dispatches, attempts, trace, startLen, published, regpc>>

\* handler, exists := e.handlers[strategy.Type]
LookupRead ==
    /\ lookup.pc = "rlocked"
    /\ \E o \in ReadOutcomes(handlers, strategies[si].Type) :
         lookup' = [pc |-> "read", seen |-> o.seen, race |-> o.race]
    /\ UNCHANGED <<stream, cursor, readFrom, batch, pc, cancelled, store, strategies,
                   handlers, dryRun, event, si, commands, ci, execErr, evals,
                   dispatches, attempts, trace, startLen, published, mu, regpc>>

\* a read lock that is kept after the lookup
LookupRUnlock_Mutant ==
    /\ lookup.pc = "read"
    /\ lookup' = [lookup EXCEPT !.pc = "done"]
    /\ UNCHANGED <<stream, cursor, readFrom, batch, pc, cancelled, store, strategies,
                   handlers, mu, regpc, dryRun, event, si, commands, ci, execErr,
                   evals, dispatches, attempts, trace, startLen, published>>

\* e.mu.RUnlock()
LookupRUnlock ==
    /\ lookup.pc = "read"
    /\ mu' = [mu EXCEPT !.readers = @ - 1]
    /\ lookup' = [lookup EXCEPT !.pc = "done"]
    /\ UNCHANGED <<stream, cursor, readFrom, batch, pc, cancelled, store, strategies,
                   handlers, dryRun, event, si, commands, ci, execErr, evals,
                   dispatches, attempts, trace, startLen, published, regpc>>

\* the rest of the iteration of handleEvent's loop, with the handler the
\* lookup returned
HandleLooked ==
    /\ pc = "handle"
    /\ si <= Len(strategies)
    /\ lookup.pc = "done"
    /\ lookup' = NoLookup
    /\ LET step == handleEventStep(event, strategies, lookup.seen, si)
       IN  /\ evals' = IF step.called
                       THEN Append(evals, [si |-> si, res |-> step.res])
                       ELSE evals
           /\ IF step.exec # <<>>
              THEN /\ dispatches' = Append(dispatches, [si |-> si, commands |-> step.exec])
                   /\ commands' = step.exec
                   /\ ci' = 1
                   /\ pc' = "exec"
                   /\ si' = si
              ELSE /\ si' = step.next
                   /\ UNCHANGED <<dispatches, commands, ci, pc>>
    /\ UNCHANGED <<stream, cursor, readFrom, batch, cancelled, store, strategies,
                   handlers, mu, regpc, dryRun, event, execErr, attempts, trace,
                   startLen, published>>

InitRegistry ==
    \E rows \in RegistryCatalogs :
        /\ stream = [s \in StreamNames |->
                       IF s = Streams[1] THEN <<Entry("fill", FillData)>> ELSE <<>>]
        /\ cursor = [s \in StreamNames |-> Dollar]
        /\ readFrom = [s \in StreamNames |-> 0]
        /\ batch = <<FirstMessage(Entry("fill", FillData))>>
        /\ pc = "handle"
        /\ cancelled = FALSE
        /\ store = rows
        /\ strategies = GetActiveStrategies(rows)
        /\ handlers = RegisterAll
        /\ mu = Unlocked
        /\ regpc = [r \in Registrars |-> NotCalled]
        /\ lookup = NoLookup
        /\ dryRun = FALSE
        /\ event = parseEvent(1, Entry("fill", FillData))
        /\ si = 1
        /\ commands = <<>>
        /\ ci = 1
        /\ execErr = NoErr
        /\ evals = <<>>
        /\ dispatches = <<>>
        /\ attempts = <<>>
        /\ trace = <<BeginMark(FirstMessage(Entry("fill", FillData)))>>
        /\ startLen = [s \in StreamNames |-> 0]
        /\ published = 1

NextRegistry ==
    \/ \E r \in Registrars, name \in LateNames : RegisterLock(r, name)
    \/ \E r \in Registrars : RegisterWrite(r)
    \/ \E r \in Registrars : RegisterUnlock(r)
    \/ LookupRLock
    \/ LookupRead
    \/ LookupRUnlock
    \/ HandleLooked
    \/ SendRequest
    \/ ExecuteCommand
    \/ ExecuteReturn
    \/ HandleReturn

SpecRegistry == InitRegistry /\ [][NextRegistry]_vars

(***************************************************************************)
(* SpecDecode: Subscribe's loops over one XREAD reply whose entries have   *)
(* every shape of the four wire fields.                                    *)
(***************************************************************************)
WireTypes == {Absent, Str("fill"), Num(1)}
WirePlatforms == {Absent, Str("polymarket"), Num(1)}
WireTimestamps ==
    {Absent, Str("2024-05-01T12:00:00Z"), Str("2024-05-01T14:00:00+02:00"),
     Str("yesterday"), Num(1714564800)}
WireData == {Absent, Str("{"), Str("[1]"), Num(1), [json |-> FillData]}

\* the entry with the fields that are present
WireEntry(type, platform, timestamp, data) ==
    LET all == [type |-> type, platform |-> platform, timestamp |-> timestamp,
                data |-> data]
    IN  [k \in {f \in DOMAIN all : all[f] # Absent} |-> all[k]]

DecodeEntries ==
    {WireEntry(ty, pl, ts, d) :
        ty \in WireTypes, pl \in WirePlatforms, ts \in WireTimestamps, d \in WireData}

\* replies of one entry of any shape, alone or next to a well-formed fill
DecodeReplies ==
    {<<e>> : e \in DecodeEntries}
      \cup {<<e, Entry("fill", FillData)>> : e \in DecodeEntries}
      \cup {<<Entry("fill", FillData), e>> : e \in DecodeEntries}

InitDecode ==
    \E reply \in DecodeReplies :
        /\ stream = [s \in StreamNames |-> IF s = Streams[1] THEN reply ELSE <<>>]
        /\ cursor = [s \in StreamNames |-> Dollar]
        /\ readFrom = [s \in StreamNames |-> 0]
        /\ batch = XReadMessages(stream, Streams[1], 0)
        /\ pc = "batch"
        /\ cancelled = FALSE
        /\ store = <<GoodRow>>
        /\ strategies = GetActiveStrategies(<<GoodRow>>)
        /\ handlers = RegisterAll
        /\ mu = Unlocked
        /\ regpc = [r \in Registrars |-> NotCalled]
        /\ lookup = NoLookup
        /\ dryRun = FALSE
        /\ event = NoEvent
        /\ si = 1
        /\ commands = <<>>
        /\ ci = 1
        /\ execErr = NoErr
        /\ evals = <<>>
        /\ dispatches = <<>>
        /\ attempts = <<>>
        /\ trace = <<>>
        /\ startLen = [s \in StreamNames |-> 0]
        /\ published = Len(reply)

NextDecode ==
    \/ DeliverMessage
    \/ HandleStrategy
    \/ SendRequest
    \/ ExecuteCommand
    \/ ExecuteReturn
    \/ HandleReturn
    \/ BatchDone

SpecDecode == InitDecode /\ [][NextDecode]_vars

(***************************************************************************)
(* SpecDispatch: handleEvent over catalogs of several strategies, the      *)
(* evaluator of the first one (any StrategyHandler) having returned a list *)
(* of two commands that ExecuteCommands is about to work off.              *)
(***************************************************************************)
DispatchCatalogs ==
    {<<GoodRow, GoodRowC>>, <<GoodRow, BadRow, GoodRowC>>,
     <<GoodRowC, UnregisteredRow, GoodRow>>}

DispatchLists == {cmds \in CommandLists : Len(cmds) = 2}

InitDispatch ==
    \E rows \in DispatchCatalogs, cmds \in DispatchLists :
        /\ stream = [s \in StreamNames |->
                       IF s = Streams[1] THEN <<Entry("fill", FillData)>> ELSE <<>>]
        /\ cursor = [s \in StreamNames |-> Dollar]
        /\ readFrom = [s \in StreamNames |-> 0]
        /\ batch = <<FirstMessage(Entry("fill", FillData))>>
        /\ pc = "exec"
        /\ cancelled = FALSE
        /\ store = rows
        /\ strategies = GetActiveStrategies(rows)
        /\ handlers = RegisterAll
        /\ mu = Unlocked
        /\ regpc = [r \in Registrars |-> NotCalled]
        /\ lookup = NoLookup
        /\ dryRun = FALSE
        /\ event = parseEvent(1, Entry("fill", FillData))
        /\ si = 1
        /\ commands = cmds
        /\ ci = 1
        /\ execErr = "pending"
        /\ evals = <<[si |-> 1, res |-> [commands |-> cmds, err |-> NoErr]]>>
        /\ dispatches = <<[si |-> 1, commands |-> cmds]>>
        /\ attempts = <<>>
        /\ trace = <<BeginMark(FirstMessage(Entry("fill", FillData)))>>
        /\ startLen = [s \in StreamNames |-> 0]
        /\ published = 1

NextDispatch ==
    \/ HandleStrategy
    \/ SendRequest
    \/ ExecuteCommand
    \/ ExecuteReturn
    \/ HandleReturn

SpecDispatch == InitDispatch /\ [][NextDispatch]_vars

(***************************************************************************)
(* SpecBacklog: Subscribe at its select, one entry of fill_events and one  *)
(* of trade_events handled, with entries that arrived in the meantime      *)
(* waiting in both streams; the context can be cancelled at any moment.    *)
(***************************************************************************)
Notice == Entry("account_created", [account_id |-> Str("A")])

BacklogSizes == {0, 1, XReadCount, XReadCount + 1}

\* the marks of an entry handled against the one-strategy catalog
HandledMarks(s) ==
    LET msg == [Stream |-> s, ID |-> 1, Values |-> Notice]
    IN  <<BeginMark(msg), EndMark(msg, <<[si |-> 1, res |-> NoResult]>>, <<>>, <<>>)>>

InitBacklog ==
    \E n1, n2 \in BacklogSizes :
        /\ stream = [s \in StreamNames |->
                       IF s = Streams[1] THEN [i \in 1..(n1 + 1) |-> Notice]
                       ELSE IF s = Streams[2] THEN [i \in 1..(n2 + 1) |-> Notice]
                       ELSE <<>>]
        /\ cursor = [s \in StreamNames |-> IF s \in {Streams[1], Streams[2]} THEN 1 ELSE Dollar]
        /\ readFrom = [s \in StreamNames |-> 0]
        /\ batch = <<>>
        /\ pc = "loop"
        /\ cancelled = FALSE
        /\ store = <<GoodRow>>
        /\ strategies = GetActiveStrategies(<<GoodRow>>)
        /\ handlers = RegisterAll
        /\ mu = Unlocked
        /\ regpc = [r \in Registrars |-> NotCalled]
        /\ lookup = NoLookup
        /\ dryRun = FALSE
        /\ event = parseEvent(1, Notice)
        /\ si = 2
        /\ commands = <<>>
        /\ ci = 1
        /\ execErr = NoErr
        /\ evals = <<[si |-> 1, res |-> NoResult]>>
        /\ dispatches = <<>>
        /\ attempts = <<>>
        /\ trace = HandledMarks(Streams[1]) \o HandledMarks(Streams[2])
        /\ startLen = [s \in StreamNames |-> 0]
        /\ published = n1 + n2 + 2

NextBacklog ==
    \/ Cancel
    \/ LoopCancelled
    \/ XReadIssue
    \/ XReadReturn
    \/ XReadTimeout
    \/ XReadError
    \/ BackoffDone
    \/ DeliverMessage
    \/ HandleStrategy
    \/ HandleReturn
    \/ BatchDone

SpecBacklog == InitBacklog /\ [][NextBacklog]_vars

(***************************************************************************)
(* SpecShutdown: the process (main): the goroutine that runs Start and     *)
(* ends the process when Start returns an error, and the main goroutine    *)
(* that cancels the context on a signal, waits two seconds and returns.    *)
(***************************************************************************)
\* "if err := eng.Start(ctx); err != nil { log.Fatal() }": Start returned
\* the error of the load or the ctx.Err() of Subscribe; the process exits
\* with status 1 and no deferred Close is run
FatalExit ==
    /\ pc \in {"failed", "stopped"}
    /\ pc' = "fatal"
    /\ UNCHANGED <<stream, cursor, readFrom, batch, cancelled, store, strategies,
                   handlers, mu, regpc, lookup, dryRun, event, si, commands, ci,
                   execErr, evals, dispatches, attempts, trace, startLen, published>>

\* main after cancel(): the Sleep is over, main returns, the deferred
\* bus.Close() and store.Close() run and the process ends, wherever the
\* other goroutine is
GraceElapsed ==
    /\ cancelled
    /\ pc \notin {"fatal", "exited"}
    /\ pc' = "exited"
    /\ UNCHANGED <<stream, cursor, readFrom, batch, cancelled, store, strategies,
                   handlers, mu, regpc, lookup, dryRun, event, si, commands, ci,
                   execErr, evals, dispatches, attempts, trace, startLen, published>>

NextShutdown ==
    \/ \E s \in StreamNames : Publish(s, Entry("fill", FillData))
    \/ Cancel
    \/ SubscriberStep
    \/ FatalExit
    \/ GraceElapsed

SpecShutdown == Init /\ [][NextShutdown]_vars

(***************************************************************************)
(* Properties.  What a claim says of a payload or a configuration is       *)
(* written out here on the JSON values themselves.                         *)
(***************************************************************************)
HasString(m, k) == k \in DOMAIN m /\ "str" \in DOMAIN m[k] /\ m[k].str # ""
HasNumber(m, k) == k \in DOMAIN m /\ "num" \in DOMAIN m[k]

FillClassEvent == event.Type \in {"fill", "trade_executed"}

\* the strategy evaluated by the k-th evaluator call for the current event
EvalStrategy(k) == strategies[evals[k].si]

HasPairsTable(config) == "pairs" \in DOMAIN config /\ "list" \in DOMAIN config.pairs

\* entry k of the pairing table names the event's account as its primary
PrimaryIsAccount(config, k) ==
    LET pair == config.pairs.list[k]
    IN  /\ "map" \in DOMAIN pair
        /\ HasString(pair.map, "primary")
        /\ \/ HasString(event.Data, "account_id")
              /\ pair.map.primary.str = event.Data.account_id.str
           \/ HasString(event.Data, "account_name")
              /\ pair.map.primary.str = event.Data.account_name.str

AllRequiredFields ==
    /\ HasString(event.Data, "account_id")
    /\ HasString(event.Data, "market_id")
    /\ HasString(event.Data, "side")
    /\ HasNumber(event.Data, "price")
    /\ HasNumber(event.Data, "shares")

\* handleEvent has returned for the current event
HandleDone == trace # <<>> /\ trace[Len(trace)].kind = "end"

Registered(strategy) == strategy.Type \in {"delta_neutral", "delta_neutral_v1"}

ActiveRegistered == {i \in 1..Len(strategies) : strategies[i].Active /\ Registered(strategies[i])}

\* C1: within one stream, for entries A published before B that are both
\* delivered, onEvent(A) has returned, with every active strategy evaluated
\* and every dispatched command attempted, before onEvent(B) begins: the
\* trace alternates begin and end marks of the same entry, every end mark is
\* complete, and any mark of an earlier entry of a stream precedes any mark
\* of a later entry of that stream.
C1_StreamOrder ==
    /\ \A k \in 1..Len(trace) :
         IF k % 2 = 1
         THEN trace[k].kind = "begin"
         ELSE /\ trace[k].kind = "end"
              /\ trace[k].s = trace[k - 1].s
              /\ trace[k].id = trace[k - 1].id
              /\ trace[k].evals = Cardinality(ActiveRegistered)
              /\ trace[k].pending = 0
    /\ \A i, j \in 1..Len(trace) :
         (trace[i].s = trace[j].s /\ trace[i].id < trace[j].id) => i < j

\* two entries of one stream, the later one begun after the earlier one ended
C1_Witness ==
    \E i, j \in 1..Len(trace) :
        /\ i < j
        /\ trace[i].kind = "end"
        /\ trace[j].kind = "begin"
        /\ trace[i].s = trace[j].s
        /\ trace[i].id < trace[j].id

Delivered(s, i) ==
    \E k \in 1..Len(trace) :
        trace[k].kind = "begin" /\ trace[k].s = s /\ trace[k].id = i

\* C2: every entry published after the subscription started, while the
\* context is not cancelled, is eventually passed to onEvent.  Cursors never
\* move back, so the claim implies: whenever the subscriber is blocked in a
\* read that has nothing to return and the context is not cancelled, every
\* entry published since the first read has been passed to onEvent.
C2_AtLeastOnce ==
    (pc = "xread" /\ ~cancelled /\ ~Available) =>
        \A s \in StreamNames : \A i \in 1..Len(stream[s]) :
            i > startLen[s] => Delivered(s, i)

\* C3: when handleEvent has returned, every active strategy with a
\* registered evaluator has been evaluated for the event and, if its
\* evaluator returned no error and a non-empty command list, that list has
\* been passed to ExecuteCommands, whatever the other evaluators returned.
C3_StrategyIsolation ==
    HandleDone =>
        \A i \in ActiveRegistered :
            \E k \in 1..Len(evals) :
                /\ evals[k].si = i
                /\ (evals[k].res.err = NoErr /\ evals[k].res.commands # <<>>) =>
                       \E d \in 1..Len(dispatches) :
                           /\ dispatches[d].si = i
                           /\ dispatches[d].commands = evals[k].res.commands

\* three strategies: the second failed, the first and the third dispatched
C3_Witness ==
    /\ HandleDone
    /\ Len(strategies) = 3
    /\ \E k \in 1..Len(evals) : evals[k].si = 2 /\ evals[k].res.err # NoErr
    /\ \E d \in 1..Len(dispatches) : dispatches[d].si = 1
    /\ \E d \in 1..Len(dispatches) : dispatches[d].si = 3

\* C4: when ExecuteCommands has returned, executeCommand has been called
\* exactly once for every command of the list, in list order, whatever the
\* earlier attempts returned, and ExecuteCommands returned nil; while it
\* runs, the attempts made are a prefix of the list.
C4_CommandIsolation ==
    /\ Len(attempts) <= Len(commands)
    /\ \A k \in 1..Len(attempts) : attempts[k].ci = k /\ attempts[k].cmd = commands[k]
    /\ pc = "handle" => (Len(attempts) = Len(commands) /\ execErr = NoErr)

\* a list whose earlier command failed and whose later command was sent
C4_Witness ==
    /\ pc = "handle"
    /\ \E j, k \in 1..Len(attempts) :
        /\ j < k
        /\ attempts[j].err # NoErr
        /\ attempts[k].request # <<>>

\* C5: for a fill-class event with all required fields whose account is the
\* primary of a pair of config.pairs (the first such pair, with a non-empty
\* hedge), the evaluator returns no error and exactly one command:
\* place_order for the pair's hedge, the event's market and shares, the
\* opposite side, the configured platform ("predict" when absent), and
\* metadata naming the event id, account and side.
C5_HedgeCommand ==
    \A k \in 1..Len(evals) :
        LET config == EvalStrategy(k).Config
            res == evals[k].res
            data == event.Data
        IN  (FillClassEvent /\ AllRequiredFields /\ HasPairsTable(config)) =>
              \A p \in 1..Len(config.pairs.list) :
                  ( /\ PrimaryIsAccount(config, p)
                    /\ \A q \in 1..(p - 1) : ~PrimaryIsAccount(config, q)
                    /\ HasString(config.pairs.list[p].map, "hedge") ) =>
                      /\ res.err = NoErr
                      /\ Len(res.commands) = 1
                      /\ res.commands[1].Type = "place_order"
                      /\ res.commands[1].AccountID = config.pairs.list[p].map.hedge.str
                      /\ res.commands[1].MarketID = data.market_id.str
                      /\ data.side.str = "yes" => res.commands[1].Side = "no"
                      /\ data.side.str = "no" => res.commands[1].Side = "yes"
                      /\ res.commands[1].Shares = data.shares.num
                      /\ res.commands[1].Platform =
                             IF HasString(config, "target_platform")
                             THEN config.target_platform.str
                             ELSE "predict"
                      /\ res.commands[1].Metadata.original_fill = event.ID
                      /\ res.commands[1].Metadata.original_account = data.account_id.str
                      /\ res.commands[1].Metadata.original_side = data.side.str

Adjustment(config) ==
    IF HasNumber(config, "price_adjustment") THEN config.price_adjustment.num ELSE 0

EventSide == IF HasString(event.Data, "side") THEN event.Data.side.str ELSE ""

\* C7: the side of every emitted command is "no" exactly when the event's
\* side is "yes", and "yes" exactly when the event's side is "no"; it is
\* never another value.
C7_SideInversion ==
    \A k \in 1..Len(evals) : \A c \in 1..Len(evals[k].res.commands) :
        LET side == evals[k].res.commands[c].Side
        IN  /\ side \in {"yes", "no"}
            /\ side = "no" <=> EventSide = "yes"
            /\ side = "yes" <=> EventSide = "no"

\* C8: for a fill-class event and a pairing table in which no pair names the
\* event's account (its id or its name) as primary, the evaluator returns no
\* commands and no error.
C8_PairLookupMiss ==
    \A k \in 1..Len(evals) :
        LET config == EvalStrategy(k).Config
        IN  ( /\ FillClassEvent
              /\ HasPairsTable(config)
              /\ \A p \in 1..Len(config.pairs.list) : ~PrimaryIsAccount(config, p) ) =>
                evals[k].res = [commands |-> <<>>, err |-> NoErr]

\* C9: for an event whose type is neither "fill" nor "trade_executed", every
\* evaluator call returns no commands and no error, whatever the strategy's
\* configuration, ExecuteCommands is never called and no command is attempted.
C9_TypeFilter ==
    ~FillClassEvent =>
        /\ \A k \in 1..Len(evals) : evals[k].res = [commands |-> <<>>, err |-> NoErr]
        /\ dispatches = <<>>
        /\ attempts = <<>>

\* an account_created event handled to the end by a strategy without a pairs table
C9_Witness ==
    /\ HandleDone
    /\ event.Type = "account_created"
    /\ \E k \in 1..Len(evals) : ~HasPairsTable(EvalStrategy(k).Config)

\* C10: for a fill-class event in which one of account_id, market_id, side,
\* price and shares is absent or of the wrong shape, the evaluator returns no
\* commands and no error.
C10_MissingFieldSkip ==
    \A k \in 1..Len(evals) :
        (FillClassEvent /\ ~AllRequiredFields) =>
            evals[k].res = [commands |-> <<>>, err |-> NoErr]

\* a pairing entry of the documented shape: a map with string primary and hedge
WellFormedPair(v) ==
    /\ "map" \in DOMAIN v
    /\ HasString(v.map, "primary")
    /\ HasString(v.map, "hedge")

\* config.pairs is missing, is not a list, or holds an entry of another shape
MalformedPairs(config) ==
    \/ ~HasPairsTable(config)
    \/ \E p \in 1..Len(config.pairs.list) : ~WellFormedPair(config.pairs.list[p])

\* C11: for a fill-class event with all required fields, an evaluator whose
\* config.pairs is missing or malformed returns an error and no commands;
\* handleEvent still evaluates every other active registered strategy.
C11_ConfigError ==
    /\ \A k \in 1..Len(evals) :
         (FillClassEvent /\ AllRequiredFields /\ MalformedPairs(EvalStrategy(k).Config)) =>
             (evals[k].res.err # NoErr /\ evals[k].res.commands = <<>>)
    /\ HandleDone => \A i \in ActiveRegistered : \E k \in 1..Len(evals) : evals[k].si = i

\* the event Subscribe built for the entry a mark of the trace is about
MarkEvent(m) == parseEvent(trace[m].id, stream[trace[m].s][trace[m].id])

EndMarks == {m \in 1..Len(trace) : trace[m].kind = "end"}

\* number of commands the evaluator calls recorded in mark m returned
RECURSIVE ResultCommands(_)
ResultCommands(results) ==
    IF results = <<>> THEN 0
    ELSE Len(Head(results).res.commands) + ResultCommands(Tail(results))

PlaceOrderAttempts == {k \in 1..Len(attempts) : attempts[k].cmd.Type = "place_order"}

\* C13: every place_order attempt sends one request, to /trade, with the
\* command's account, market, side, price and shares and with confirm equal
\* to the negation of the dry-run setting; all attempts of the run carry the
\* same flag, and the request differs from the one built with dry-run off in
\* the confirm flag only.
C13_DryRunFlag ==
    \A k \in PlaceOrderAttempts :
        LET cmd == attempts[k].cmd
            request == attempts[k].request
        IN  /\ Len(request) = 1
            /\ request[1].confirm = ~dryRun
            /\ request[1].path = "/trade"
            /\ request[1].account_id = cmd.AccountID
            /\ request[1].market_id = cmd.MarketID
            /\ request[1].side = cmd.Side
            /\ request[1].price = cmd.Price
            /\ request[1].shares = cmd.Shares
            /\ [request[1] EXCEPT !.confirm = TRUE] = placeOrder(cmd, FALSE, "ok").request[1]

\* under dry-run a request went out, with confirm false
C13_Witness ==
    /\ dryRun
    /\ \E k \in PlaceOrderAttempts :
         /\ attempts[k].request # <<>>
         /\ attempts[k].request[1].confirm = FALSE

\* C14: a place_order command for platform "polymarket" is sent to the
\* Polymarket base URL and one for platform "predict" to the Predict base
\* URL, which are two different services.
C14_Routing ==
    /\ PredictURL # PolymarketURL
    /\ \A k \in PlaceOrderAttempts :
         /\ Len(attempts[k].request) = 1
         /\ attempts[k].cmd.Platform = "polymarket" =>
                attempts[k].request[1].base = PolymarketURL
         /\ attempts[k].cmd.Platform = "predict" =>
                attempts[k].request[1].base = PredictURL

\* one list with an order for each service, each sent to its own base URL
C14_Witness ==
    /\ \E k \in PlaceOrderAttempts :
         /\ attempts[k].cmd.Platform = "polymarket"
         /\ attempts[k].request[1].base = PolymarketURL
    /\ \E k \in PlaceOrderAttempts :
         /\ attempts[k].cmd.Platform = "predict"
         /\ attempts[k].request[1].base = PredictURL

\* C15: an entry that was in a stream before Subscribe started is never
\* passed to onEvent.  Subscribe starts before its first XREAD, so such an
\* entry lies at or below the length the stream had at the first XREAD; no
\* entry at or below that length is ever delivered, and none at all before
\* the first XREAD.
C15_NoBacklog ==
    \A s \in StreamNames : \A i \in 1..Len(stream[s]) :
        Delivered(s, i) => (startLen[s] # Dollar /\ i > startLen[s])

\* a stream that held an entry before the first read, and a later entry of
\* it that was delivered
C15_Witness ==
    \E s \in StreamNames :
        /\ startLen[s] >= 1
        /\ \E i \in 1..Len(stream[s]) : i > startLen[s] /\ Delivered(s, i)
        /\ ~Delivered(s, 1)

\* some evaluator call recorded in mark m returned an error
HandlingFailed(m) ==
    \E k \in 1..Len(trace[m].results) : trace[m].results[k].res.err # NoErr

\* C16: no entry is passed to onEvent twice, and once the handler has
\* returned for an entry, with or without a failure, the cursor of its
\* stream is at that entry's id or beyond (exactly at it right after the
\* return).
C16_NoRedelivery ==
    /\ \A i, j \in 1..Len(trace) :
         ( /\ trace[i].kind = "begin" /\ trace[j].kind = "begin"
           /\ trace[i].s = trace[j].s /\ trace[i].id = trace[j].id ) => i = j
    /\ \A m \in EndMarks :
         /\ cursor[trace[m].s] # Dollar
         /\ cursor[trace[m].s] >= trace[m].id
         /\ m = Len(trace) => cursor[trace[m].s] = trace[m].id

\* an entry whose handling failed, and a later entry of the same stream delivered
C16_Witness ==
    \E m \in EndMarks : \E n \in 1..Len(trace) :
        /\ HandlingFailed(m)
        /\ m < n
        /\ trace[n].kind = "begin"
        /\ trace[n].s = trace[m].s
        /\ trace[n].id > trace[m].id

\* C17: a read that fails while the context is not cancelled does not end
\* the subscription; from the failure through the backoff to the next read
\* no cursor changes and nothing is passed to onEvent, the backoff leads
\* back to the loop only, and the loop, if the context is still live, issues
\* the next XREAD from the unchanged cursors.
C17_ReadFailure ==
    [][ /\ (pc = "xread" /\ ~cancelled) => pc' \in {"xread", "batch", "loop", "backoff"}
        /\ (pc = "xread" /\ pc' = "backoff") => (cursor' = cursor /\ trace' = trace)
        /\ pc = "backoff" =>
              (pc' \in {"backoff", "loop"} /\ cursor' = cursor /\ trace' = trace)
        /\ (pc = "loop" /\ ~cancelled /\ pc' # "loop") =>
              /\ pc' = "xread"
              /\ cursor' = cursor
              /\ trace' = trace
              /\ readFrom' = [s \in StreamNames |-> Resolve(cursor[s], Len(stream[s]))]
      ]_vars

\* a read has failed, with the context live, after an entry had moved a cursor
C17_Witness ==
    /\ pc = "backoff"
    /\ ~cancelled
    /\ \E s \in StreamNames : cursor[s] # Dollar

\* C18: Subscribe has returned only if the context has been cancelled.
C18_StopsOnlyOnCancel ==
    pc = "stopped" => cancelled

\* Subscribe has returned after handling an entry whose evaluator failed and
\* an entry that does not decode
C18_Witness ==
    /\ pc = "stopped"
    /\ \E m \in EndMarks : HandlingFailed(m)
    /\ \E m \in EndMarks : stream[trace[m].s][trace[m].id] = GarbledEntry

\* C19: once the context is cancelled, Engine.Start eventually returns,
\* whether or not anything is published.
C19_CancelLiveness ==
    cancelled ~> (pc \in {"stopped", "failed"})

\* Subscribe has returned on cancellation without a single entry published
C19_Witness ==
    /\ pc = "stopped"
    /\ cancelled
    /\ published = 0

\* C20: when the context is cancelled during the backoff that follows a
\* failed read, the wait is abandoned: the subscriber's next step out of the
\* backoff is the return of Subscribe, never the end of the sleep.
C20_CancelSupersedesBackoff ==
    [][(pc = "backoff" /\ cancelled) => pc' \in {"backoff", "stopped"}]_vars

Qualifies(row) == row.enabled /\ row.decodable

\* the strategies of the qualifying rows of the store, in row order
QualifyingStrategies ==
    LET kept == SelectSeq(store, Qualifies)
    IN  [i \in 1..Len(kept) |->
            [Name |-> kept[i].name, Type |-> kept[i].type,
             Active |-> TRUE, Config |-> kept[i].config]]

\* C23: after a successful load the catalog is exactly the enabled rows
\* that decode, in row order; a row that does not decode is left out
\* without touching the rows around it, and a table with no qualifying row
\* gives the empty catalog.
C23_CatalogLoad ==
    pc = "loop" => strategies = QualifyingStrategies

\* a row that does not decode between two rows that were loaded
C23_Witness ==
    /\ pc = "loop"
    /\ Len(store) = 3
    /\ Qualifies(store[1]) /\ Qualifies(store[3])
    /\ store[2].enabled /\ ~store[2].decodable
    /\ Len(strategies) = 2

\* C24: Start leaves the created state either with the catalog loaded or,
\* when the load fails, by returning an error; in a run whose load failed
\* nothing is ever read, handled, evaluated or dispatched, and the engine
\* stays failed.
C24_StoreFailure ==
    [][ /\ (pc = "created" /\ pc' # "created") =>
              \/ pc' = "failed"
              \/ pc' = "loop" /\ strategies' = GetActiveStrategies(store)
        /\ pc' = "failed" =>
              /\ pc \in {"created", "failed"}
              /\ trace' = <<>> /\ evals' = <<>> /\ dispatches' = <<>> /\ attempts' = <<>>
              /\ cursor' = cursor /\ readFrom' = readFrom /\ strategies' = <<>>
      ]_vars

\* the load failed, entries were published afterwards, none was handled
C24_Witness ==
    /\ pc = "failed"
    /\ published >= 1
    /\ trace = <<>>

\* C25: an attempt of a cancel_order command sends no request and returns
\* no error, and the list goes on after it: once ExecuteCommands has
\* returned, every command of the list has been attempted.
C25_CancelPlaceholder ==
    /\ \A k \in 1..Len(attempts) :
         attempts[k].cmd.Type = "cancel_order" =>
             (attempts[k].request = <<>> /\ attempts[k].err = NoErr)
    /\ pc = "handle" => Len(attempts) = Len(commands)

\* a cancel_order followed in its list by an order that was sent
C25_Witness ==
    \E j, k \in 1..Len(attempts) :
        /\ j < k
        /\ attempts[j].cmd.Type = "cancel_order"
        /\ attempts[k].cmd.Type = "place_order"
        /\ attempts[k].request # <<>>

\* C30: every command the evaluator returns has shares greater than zero.
C30_PositiveShares ==
    \A k \in 1..Len(evals) : \A c \in 1..Len(evals[k].res.commands) :
        evals[k].res.commands[c].Shares > 0

\* C22: the catalog is assigned once, by the load in Start that precedes
\* the subscription, and never again, whatever is written to the store
\* afterwards; every handled event was evaluated against exactly that
\* sequence of strategies.
C22_CatalogSnapshot ==
    /\ [](\A m \in EndMarks :
            /\ Len(trace[m].results) = Cardinality(ActiveRegistered)
            /\ \A k \in 1..Len(trace[m].results) :
                 trace[m].results[k].res =
                     DeltaNeutralHandler(MarkEvent(m), strategies[trace[m].results[k].si]))
    /\ [][ /\ (pc = "created" /\ pc' = "loop") => strategies' = GetActiveStrategies(store)
           /\ pc # "created" => strategies' = strategies
         ]_vars

\* an event handled against the loaded catalog after the store was rewritten
C22_Witness ==
    /\ trace # <<>>
    /\ trace[Len(trace)].kind = "end"
    /\ strategies # GetActiveStrategies(store)
    /\ Len(trace[Len(trace)].results) = Len(strategies)
    /\ Len(strategies) # Len(GetActiveStrategies(store))

\* the lifecycle state of the engine at a position of its goroutine:
\* Created before Start has loaded the catalog, Started and Running while
\* Subscribe's loop runs, Stopped once Start has returned
Lifecycle(p) ==
    CASE p = "created" -> 0
      [] p \in {"stopped", "failed"} -> 2
      [] OTHER -> 1

\* C29: the engine never moves back to an earlier lifecycle state, and the
\* handler begins and ends (and commands are attempted) only between the
\* catalog load and the return of Start.
C29_Lifecycle ==
    [][ /\ Lifecycle(pc') >= Lifecycle(pc)
        /\ (trace' # trace \/ attempts' # attempts \/ evals' # evals) =>
              (Lifecycle(pc) = 1 /\ Lifecycle(pc') = 1)
      ]_vars

\* Start has returned after a run in which an entry was handled
C29_Witness ==
    /\ pc = "stopped"
    /\ EndMarks # {}

\* a handleEvent invocation is in progress
Handling == pc \in {"handle", "exec", "http"}

\* C27: at most one handleEvent invocation is in progress, a read of the
\* bus is in flight only when none is, and while an event is being handled
\* no further event has been fetched: the only fetched message is the one
\* in hand.
C27_OneEventAtATime ==
    /\ Cardinality({m \in 1..Len(trace) : trace[m].kind = "begin"})
         - Cardinality(EndMarks) = (IF Handling THEN 1 ELSE 0)
    /\ pc = "xread" => (~Handling /\ batch = <<>>)
    /\ Handling => Len(batch) = 1

\* C28: an outbound call that was sent while the context was live ends
\* with a response or with a transport failure or timeout of the client,
\* never with the cancellation of the context.
C28_InFlightSurvives ==
    \A k \in 1..Len(attempts) :
        (attempts[k].cmd.Type = "place_order" /\ attempts[k].live) =>
            attempts[k].outcome \in {"inflight"} \cup HttpOutcomes

\* the positions of handleEvent between e.mu.RLock() and e.mu.RUnlock()
Reading == lookup.pc \in {"rlocked", "read"}

\* C26: RegisterStrategy's locked section never overlaps a registry lookup
\* of handleEvent nor the locked section of another RegisterStrategy call;
\* no lookup runs together with a map write, what a lookup reads is the
\* registry's entry for the strategy's type at that moment, and the registry
\* changes only while no lookup is between RLock and RUnlock.
C26_RegistryLocking ==
    /\ [](/\ Cardinality(Writing) <= 1
          /\ ~(Writing # {} /\ Reading)
          /\ ~lookup.race)
    /\ [][ /\ (lookup.pc = "rlocked" /\ lookup'.pc = "read") =>
                  lookup'.seen = View(handlers, strategies[si].Type)
           /\ handlers' # handlers => (~Reading /\ lookup' = lookup) ]_vars

\* a registration of the type of the strategy at hand holds the lock while
\* handleEvent, having handled an earlier strategy, waits to look the type up
C26_Witness ==
    /\ pc = "handle"
    /\ si > 1
    /\ si <= Len(strategies)
    /\ lookup.pc = "idle"
    /\ \E r \in Writing : regpc[r].name = strategies[si].Type

\* the wire value of field k of the entry being handled
Wire(k) == Get(Head(batch).Values, k)

IsStr(v) == "str" \in DOMAIN v

\* the begin marks of the trace
BeginMarks == {m \in 1..Len(trace) : trace[m].kind = "begin"}

\* C31: every entry of a reply is decoded and passed to onEvent, whatever
\* its fields: the event has the entry's id; its type and platform are the
\* wire strings, or "" when missing or not strings; its timestamp is the
\* instant of a well-formed RFC 3339 wire string, else the time of decoding;
\* its data is the decoded payload, else the empty map; and when the reply
\* has been worked off every entry of it has been delivered.
C31_TolerantDecoding ==
    /\ Handling =>
         /\ event.ID = Head(batch).ID
         /\ event.Type = (IF IsStr(Wire("type")) THEN Wire("type").str ELSE "")
         /\ event.Platform = (IF IsStr(Wire("platform")) THEN Wire("platform").str ELSE "")
         /\ \/ /\ Wire("timestamp") \in {Str("2024-05-01T12:00:00Z"),
                                         Str("2024-05-01T14:00:00+02:00")}
               /\ event.Timestamp = [unix |-> 1714564800]
            \/ /\ Wire("timestamp") \in {Absent, Str("yesterday"), Num(1714564800)}
               /\ event.Timestamp = ReceiptTime
         /\ \/ Wire("data") = [json |-> FillData] /\ event.Data = FillData
            \/ Wire("data") \in {Absent, Str("{"), Str("[1]"), Num(1)} /\ event.Data = <<>>
    /\ \A s \in StreamNames :
         Cardinality({m \in BeginMarks : trace[m].s = s})
            = Len(stream[s]) - Cardinality({k \in 1..Len(batch) : batch[k].Stream = s})
                + (IF Handling /\ Head(batch).Stream = s THEN 1 ELSE 0)
    /\ pc = "loop" =>
         \A s \in StreamNames : \A id \in 1..Len(stream[s]) :
             \E m \in BeginMarks : trace[m].s = s /\ trace[m].id = id

\* the second entry of a reply is being handled after a first entry that had
\* no type, an unparseable timestamp and an undecodable payload
C31_Witness ==
    /\ Handling
    /\ Head(batch).ID = 2
    /\ stream[Streams[1]][1] = [timestamp |-> Str("yesterday"), data |-> Str("{")]
    /\ event.Timestamp = ReceiptTime
    /\ event.Type = "fill"

\* the attempts of the commands of strategy i that have come to their end
AttemptsOf(i) ==
    {a \in 1..Len(attempts) : attempts[a].si = i /\ attempts[a].outcome # "inflight"}

\* C32: for the event being handled, evaluators are invoked and command
\* lists dispatched in catalog order; the attempts follow the catalog order
\* of their strategies and, within one strategy, the order of the list its
\* evaluator returned; and once the evaluator of a strategy has been
\* invoked, every command dispatched for an earlier strategy has been
\* attempted to its end.
C32_DispatchOrder ==
    /\ \A j, k \in 1..Len(evals) : j < k => evals[j].si < evals[k].si
    /\ \A j, k \in 1..Len(dispatches) : j < k => dispatches[j].si < dispatches[k].si
    /\ \A a, b \in 1..Len(attempts) :
         a < b => \/ attempts[a].si < attempts[b].si
                  \/ attempts[a].si = attempts[b].si /\ attempts[a].ci < attempts[b].ci
    /\ \A a \in 1..Len(attempts) :
         \E k \in 1..Len(evals) :
             /\ evals[k].si = attempts[a].si
             /\ attempts[a].ci <= Len(evals[k].res.commands)
             /\ evals[k].res.commands[attempts[a].ci] = attempts[a].cmd
    /\ \A k \in 1..Len(evals) : \A d \in 1..Len(dispatches) :
         dispatches[d].si < evals[k].si =>
             Cardinality(AttemptsOf(dispatches[d].si)) = Len(dispatches[d].commands)

\* the two commands of the first strategy were attempted, the first of them
\* failing, before the command of a later strategy was attempted
C32_Witness ==
    /\ Len(attempts) = 3
    /\ attempts[1].si = 1 /\ attempts[1].err # NoErr
    /\ attempts[2].si = 1 /\ attempts[2].cmd # attempts[1].cmd
    /\ attempts[3].si > 1 /\ attempts[3].outcome = "ok"

\* the attempts that sent a request to an execution service
Outbound == {a \in 1..Len(attempts) : attempts[a].request # <<>>}

\* strategy st of the snapshot comes from an enabled row of the table
FromEnabledRow(st) ==
    \E i \in 1..Len(store) :
        /\ store[i].enabled
        /\ store[i].name = st.Name
        /\ store[i].type = st.Type
        /\ store[i].config = st.Config

\* C33: every request sent while an event is handled is for a command that
\* the registered evaluator of a strategy of the snapshot returned, with no
\* error, for that event; the strategy is marked active and comes from an
\* enabled row; requests are sent only while an event is being handled.
C33_NoOrderWithoutCause ==
    /\ \A a \in Outbound :
         /\ attempts[a].si \in 1..Len(strategies)
         /\ LET st == strategies[attempts[a].si]
                res == DeltaNeutralHandler(event, st)
            IN  /\ st.Active
                /\ FromEnabledRow(st)
                /\ st.Type \in DOMAIN handlers
                /\ res.err = NoErr
                /\ attempts[a].ci \in 1..Len(res.commands)
                /\ res.commands[attempts[a].ci] = attempts[a].cmd
                /\ attempts[a].request[1].account_id = attempts[a].cmd.AccountID
         /\ Len(trace) > 0
         /\ trace[Len(trace)].id = event.ID
    /\ Cardinality(Outbound)
         <= Cardinality({i \in 1..Len(strategies) :
                           /\ strategies[i].Type \in DOMAIN handlers
                           /\ DeltaNeutralHandler(event, strategies[i]).err = NoErr
                           /\ DeltaNeutralHandler(event, strategies[i]).commands # <<>>})

\* a fill handled against a table with a disabled row, a row whose
\* evaluation fails, a row of an unregistered type and a good row: one
\* request, for the good row
C33_Witness ==
    /\ HandleDone
    /\ store = <<DisabledRow, BadRow, UnregisteredRow, GoodRow>>
    /\ Len(strategies) = 3
    /\ Cardinality(Outbound) = 1
    /\ \A a \in Outbound : strategies[attempts[a].si].Name = "dn"

\* entry p is the first entry of the table that names the event's account
FirstForAccount(config, p) ==
    /\ PrimaryIsAccount(config, p)
    /\ \A q \in 1..(p - 1) : ~PrimaryIsAccount(config, q)

\* C34: every command the evaluator returns has type place_order, a
\* non-empty account and a non-empty market; and when the first pair that
\* names the event's account has a hedge that is missing, empty or not a
\* string, the evaluator returns no command and no error.
C34_WellFormedCommands ==
    \A k \in 1..Len(evals) :
        LET config == EvalStrategy(k).Config
            res == evals[k].res
        IN  /\ \A c \in 1..Len(res.commands) :
                 /\ res.commands[c].Type = "place_order"
                 /\ res.commands[c].AccountID # ""
                 /\ res.commands[c].MarketID # ""
            /\ (FillClassEvent /\ HasPairsTable(config)) =>
                 \A p \in 1..Len(config.pairs.list) :
                     ( /\ FirstForAccount(config, p)
                       /\ ~HasString(config.pairs.list[p].map, "hedge") ) =>
                         res = [commands |-> <<>>, err |-> NoErr]

\* the three strings the evaluator requires of the payload
RequiredStrings ==
    /\ HasString(event.Data, "account_id")
    /\ HasString(event.Data, "market_id")
    /\ HasString(event.Data, "side")

\* C35: for a fill-class event with the required fields, when entries of
\* config.pairs name the event's account id or name as their primary, the
\* result is decided by the first of them alone: one command for its hedge,
\* or no command when it has no usable hedge, and no error in either case,
\* whatever the later entries and the entries that are not objects are.
C35_FirstPairWins ==
    \A k \in 1..Len(evals) :
        LET config == EvalStrategy(k).Config
            res == evals[k].res
        IN  (FillClassEvent /\ RequiredStrings /\ HasPairsTable(config)) =>
              \A p \in 1..Len(config.pairs.list) :
                  FirstForAccount(config, p) =>
                      /\ res.err = NoErr
                      /\ IF HasString(config.pairs.list[p].map, "hedge")
                         THEN /\ Len(res.commands) = 1
                              /\ res.commands[1].AccountID = config.pairs.list[p].map.hedge.str
                         ELSE res.commands = <<>>

\* C36: a place_order command for any platform other than "polymarket",
\* the empty string and unknown names included, is sent, as one request to
\* the Predict base URL, and its result is that of the call alone: nil when
\* the service answers 200 with a body that decodes.
C36_DefaultRoute ==
    \A k \in PlaceOrderAttempts :
        attempts[k].cmd.Platform # "polymarket" =>
            /\ Len(attempts[k].request) = 1
            /\ attempts[k].request[1].base = PredictURL
            /\ attempts[k].request[1].account_id = attempts[k].cmd.AccountID
            /\ attempts[k].outcome = "ok" => attempts[k].err = NoErr
            /\ attempts[k].outcome \in {"badbody", "non200", "transport", "canceled"} =>
                   attempts[k].err # NoErr

\* orders for the empty platform and for an unknown one, both answered by
\* the Predict service
C36_Witness ==
    /\ \E k \in PlaceOrderAttempts :
         /\ attempts[k].cmd.Platform = ""
         /\ attempts[k].outcome = "ok"
         /\ attempts[k].request[1].base = PredictURL
    /\ \E k \in PlaceOrderAttempts :
         /\ attempts[k].cmd.Platform = "kalshi"
         /\ attempts[k].outcome = "ok"
         /\ attempts[k].request[1].base = PredictURL

\* the entries of stream s in the reply being worked off
InBatch(s) == {k \in 1..Len(batch) : batch[k].Stream = s}

\* what the claim says apart from the size of a reply: Subscribe is at its
\* select, in a read, in a backoff or returned only with no entry of a reply
\* left; an entry leaves the reply only after it was passed to onEvent,
\* context cancelled or not; and no read is issued once the context is done
BatchWorkedOff ==
    /\ [](pc \in {"loop", "xread", "backoff", "stopped"} => batch = <<>>)
    /\ [][ /\ (batch # <<>> /\ batch' # batch) =>
                 /\ batch' = Tail(batch)
                 /\ Delivered(Head(batch).Stream, Head(batch).ID)
                 /\ event.ID = Head(batch).ID
           /\ (pc = "batch" /\ batch # <<>> /\ pc' # pc) => pc' = "handle"
           /\ (pc' = "xread" /\ pc # "xread") => ~cancelled ]_vars

\* C37 as stated: a reply holds at most 10 entries, and cancellation during
\* a reply lets every remaining entry of it be passed to onEvent before
\* Subscribe returns, with no read after it.
C37_CancelBetweenReads_Original ==
    /\ [](Len(batch) <= XReadCount)
    /\ BatchWorkedOff

\* C37: a reply holds at most 10 entries of each of the three streams, and
\* cancellation during a reply lets every remaining entry of it be passed to
\* onEvent before Subscribe returns, with no read after it.
C37_CancelBetweenReads ==
    /\ [](\A s \in StreamNames : Cardinality(InBatch(s)) <= XReadCount)
    /\ [](Len(batch) <= XReadCount * Len(Streams))
    /\ BatchWorkedOff

\* Subscribe has returned on cancellation after a reply of 20 entries was
\* worked off to its end, an eleventh new entry of each stream left unread
C37_Witness ==
    /\ pc = "stopped"
    /\ cancelled
    /\ Len(stream[Streams[1]]) = XReadCount + 2
    /\ Len(stream[Streams[2]]) = XReadCount + 2
    /\ cursor[Streams[1]] = XReadCount + 1
    /\ cursor[Streams[2]] = XReadCount + 1
    /\ \A i \in 2..(XReadCount + 1) : Delivered(Streams[1], i) /\ Delivered(Streams[2], i)
    /\ ~Delivered(Streams[1], XReadCount + 2)

\* C38: the process is ended by log.Fatal only when the load of the
\* catalog failed: the return of Start that follows the cancellation of the
\* context does not end it, so that after a signal the process ends by main
\* returning after the grace wait, with the store and the bus closed.
C38_CleanShutdown ==
    [][(pc' = "fatal" /\ pc # "fatal") => pc = "failed"]_vars

\* C39: the read lock is held between RLock and RUnlock of the lookup and
\* at no other moment; while the evaluator is about to run or commands are
\* being dispatched, an outbound call in flight included, no lock of the
\* engine is held, so that a RegisterStrategy call waits for another
\* registration at most; and a lookup made after a registration of the
\* strategy's type has returned finds the evaluator.
C39_LockOnlyForLookup ==
    /\ [](mu.readers = (IF Reading THEN 1 ELSE 0))
    /\ []((pc \in {"exec", "http"} \/ lookup.pc = "done") => mu.readers = 0)
    /\ [](\A r \in Registrars :
            (pc \in {"exec", "http"} /\ regpc[r].pc = "idle" /\ Writing = {}) =>
                \A name \in LateNames : ENABLED RegisterLock(r, name))
    /\ [][ (lookup.pc = "rlocked" /\ lookup'.pc = "read") =>
             \A r \in Registrars :
                 (regpc[r].pc = "done" /\ regpc[r].name = strategies[si].Type) =>
                     strategies[si].Type \in DOMAIN lookup'.seen ]_vars

\* a registration holds the lock while an outbound call of the first
\* strategy is in flight, for the type of the strategy that comes next
C39_Witness ==
    /\ pc = "http"
    /\ si < Len(strategies)
    /\ \E r \in Writing : regpc[r].name = strategies[si + 1].Type
    /\ strategies[si + 1].Type \notin DOMAIN RegisterAll

====
